---- MODULE Spec2Model ----
(***************************************************************************)
(* Audience synchronisation pipeline of targetbot (Cloudflare Worker).     *)
(*                                                                         *)
(* Every invocation of an entry point is a process.  A step of a process   *)
(* is the code that runs between two awaits: it consumes the answer of the *)
(* awaited store or remote call and runs synchronously up to the next      *)
(* await (or to the return of the entry point).  Invocations interleave at *)
(* the awaits only, as in the Workers runtime.                             *)
(*                                                                         *)
(* Numbers: a ratio is kept in thousandths (0.01 is 10, 0.20 is 200), an   *)
(* audience id is a positive integer and 0 is null/undefined for an id.    *)
(* An upload response is a record that may lack its optional count fields. *)
(***************************************************************************)
EXTENDS Integers, Sequences, FiniteSets, TLC

\* ------------------------------------------------------------- bounds
MaxRuns == 2        \* invocations started in one behaviour
MaxFaults == 1      \* failed store/remote answers in one behaviour
MaxBatches == 2     \* largest direct upload is MaxBatches*MAX_BATCH_SIZE + 1
MaxPages == 3       \* longest chain of insights pages
MaxPageRecords == 1 \* most records on one insights page
MaxCampaigns == 2   \* most campaigns in the campaign listing
MaxMetricsRuns == 3 \* invocations of the metrics entry points in one behaviour
MaxLen == 3         \* longest phone string drawn (the sample number aside)
MaxPhones == 3      \* longest array of phone numbers hashed in one call
MaxReports == 2     \* most reports summarized in one call
MaxFetches == 5     \* page requests of one collection the model follows

\* --------------------------------------------------- program constants
MAX_BATCH_SIZE == 10000
PhoneCount == 10
RatioMin == 10
RatioMax == 200
LookalikeRatio == 10

Procs == {1, 2}
PhoneAudience == "Phone Audience"
Names == {PhoneAudience, "phone audience"}
LookalikeName == "Phone Audience - Lookalike 1%"
LookalikeCountry == "RU"
Countries == {LookalikeCountry, "US"}
Ratios == {5, RatioMin, RatioMax, 250}
UploadSizes ==
    {0, 1, MAX_BATCH_SIZE, MAX_BATCH_SIZE + 1,
     MaxBatches * MAX_BATCH_SIZE, MaxBatches * MAX_BATCH_SIZE + 1}

VARIABLES
    proc,     \* proc[p]: position, locals and call log of invocation slot p
    kv,       \* AUDIENCE_CACHE: key -> id, 0 when the key is absent
    remote,   \* the ad account's audiences, in listing order
    runs,     \* invocations started so far
    faults    \* failed answers injected so far

vars == <<proc, kv, remote, runs, faults>>

\* ------------------------------------------------------------ the keys
audienceIdKeyInKV(name) == <<"audience", name, "", 0>>
\* mutant: the ratio is left out of the key
lookalikeIdKeyInKV_NoRatio(name, countrySpec, ratio) ==
    <<"lookalike", name, countrySpec, 10>>

lookalikeIdKeyInKV(name, countrySpec, ratio) == <<"lookalike", name, countrySpec, ratio>>

\* KV_KEYS of the metrics flow
LAST_METRICS == <<"last_metrics", "", "", 0>>
ACTIVE_CAMPAIGNS == <<"active_campaigns", "", "", 0>>
MetricsKeys == {LAST_METRICS, ACTIVE_CAMPAIGNS}

Keys ==
    {audienceIdKeyInKV(n) : n \in Names}
        \cup {lookalikeIdKeyInKV(LookalikeName, c, r) : c \in Countries, r \in Ratios}
        \cup MetricsKeys

\* an absent key reads as null: 0 for an id, the empty record for a document
NoBody == [f \in {} |-> 0]
EmptyKV == [k \in Keys |-> IF k \in MetricsKeys THEN NoBody ELSE 0]

\* ------------------------------------------------------ process records
NoRet == [ok |-> FALSE, id |-> 0, msg |-> "", body |-> NoBody]
NoPrev ==
    [entry |-> "none", name |-> "", ok |-> FALSE, id |-> 0, creates |-> 0,
     msg |-> "", snap0 |-> NoBody, country |-> "", ratio |-> 0]

\* the secrets of Env: TRUE when the binding holds a non-empty string
AllSecrets == [FB_ACCESS_TOKEN |-> TRUE, FB_AD_ACCOUNT_ID |-> TRUE]

IdleProc ==
    [pc |-> "idle", entry |-> "none", flow |-> "none", flows |-> <<>>,
     name |-> "", aid |-> 0, lid |-> 0, n |-> 0, chunk |-> 0, results |-> <<>>,
     applied |-> <<>>, ratio |-> 0, country |-> "", viaRemote |-> FALSE,
     syncRes |-> "none", seen |-> {}, log |-> <<>>, ret |-> NoRet,
     prev |-> NoPrev,
     chain |-> <<>>, endless |-> FALSE, allData |-> <<>>, nextPage |-> 0,
     campaigns |-> <<>>, metricsData |-> NoBody, snap0 |-> NoBody,
     idform |-> "", printed |-> {},
     path |-> "", status |-> 0, env |-> AllSecrets,
     arg |-> <<>>, phones |-> <<>>, pending |-> {}, outs |-> <<>>,
     order |-> <<>>]

\* the call log of an invocation: one event per store or remote call it has
\* been answered, with the flow it ran in, whether the call succeeded and the
\* value read, written, found, created or received
Log(s, op, ok, val) ==
    [s EXCEPT !.log = Append(@, [flow |-> s.flow, op |-> op, ok |-> ok, val |-> val])]

Count(log, op) == Cardinality({i \in 1..Len(log) : log[i].op = op})

\* the status of the Response the fetch handler builds once the call it
\* awaited has ended: the routes construct their Response without a status
\* (200), the handler's catch answers 500
ResponseStatus(msg) == IF msg = "thrown" THEN 500 ELSE 200

\* the end of an invocation; one made by the fetch handler (path set) is
\* answered with a Response
Finish(s, ok, id, msg, body) ==
    [s EXCEPT !.pc = "done",
              !.ret = [ok |-> ok, id |-> id, msg |-> msg, body |-> body],
              !.status = IF s.path = "" THEN 0 ELSE ResponseStatus(msg)]

\* a call that ends by raising to its caller
Raise(s) == Finish(s, FALSE, 0, "thrown", NoBody)

\* ------------------------------------------------- lookalike.ts, deriver
\* mutant: the bounds themselves are rejected
RatioValid_Strict(ratio) == ratio > RatioMin /\ ratio < RatioMax

RatioValid(ratio) == ~(ratio < RatioMin \/ ratio > RatioMax)

\* createPhoneLookalikeAudience's result, on every path
LookReturn(s, success, id, msg) == Finish(s, success, id, msg, NoBody)

DeriveReturn(s, id) ==
    IF s.flow = "look" THEN LookReturn(s, TRUE, id, "ok")
    ELSE Finish(s, TRUE, id, "ok", NoBody)

\* a throw of createLookalikeAudience: createLookalikeAudienceInternal rethrows
\* it; on the secondary path the call sits inside the inner try (131-151),
\* whose catch falls through to the "not found" result
DeriveThrow(s) ==
    IF s.flow = "look"
    THEN IF s.viaRemote THEN LookReturn(s, FALSE, 0, "notfound")
         ELSE LookReturn(s, FALSE, 0, "error")
    ELSE Raise(s)

createLookalikeAudience(s, sourceAudienceId, countrySpec, ratio) ==
    LET t == [s EXCEPT !.aid = sourceAudienceId, !.country = countrySpec,
                       !.ratio = ratio]
    IN  IF ~RatioValid(ratio) THEN DeriveThrow(t)
        ELSE [t EXCEPT !.pc = "d_get"]

createLookalikeAudienceInternal(s, sourceAudienceId) ==
    createLookalikeAudience(s, sourceAudienceId, LookalikeCountry, LookalikeRatio)

\* ------------------------------------------- audienceManager.ts, index.ts
createPhoneLookalikeAudience(s) ==
    [s EXCEPT !.flow = "look", !.flows = Append(@, "look"),
              !.name = PhoneAudience, !.viaRemote = FALSE, !.pc = "l_get"]

\* mutant: the Lookalike flow is started whatever the Sync result
scheduled_Always(s, success) == createPhoneLookalikeAudience(s)

\* the scheduled handler after syncPhoneAudience has returned
scheduled(s, success) ==
    IF success THEN createPhoneLookalikeAudience(s)
    ELSE Finish(s, FALSE, 0, "skipped", NoBody)

SyncReturn(s, success, id) ==
    LET t == [s EXCEPT !.syncRes = IF success THEN "ok" ELSE "failed"]
    IN  IF s.entry = "scheduled" THEN scheduled(t, success)
        ELSE Finish(t, success, id, IF success THEN "ok" ELSE "error", NoBody)

\* ------------------------------------------ audience-update.ts, uploader
RECURSIVE BatchesFrom(_, _)
BatchesFrom(i, n) ==
    IF i < n
    THEN <<[from |-> i,
            to |-> IF i + MAX_BATCH_SIZE < n THEN i + MAX_BATCH_SIZE ELSE n]>>
             \o BatchesFrom(i + MAX_BATCH_SIZE, n)
    ELSE <<>>

Batches(n) == BatchesFrom(0, n)

\* result.field || 0
OrZero(result, field) ==
    IF field \in DOMAIN result THEN result[field] ELSE 0

\* results.reduce((sum, result) => sum + (result.field || 0), 0)
RECURSIVE Total(_, _)
Total(results, field) ==
    IF results = <<>> THEN 0
    ELSE OrZero(Head(results), field) + Total(Tail(results), field)

\* the answers the remote may give to an upload of `size` identifiers: the
\* counts are optional fields of UpdateAudienceResponse
UploadResponses(audienceId, size) ==
    {[audience_id |-> audienceId, num_received |-> size],
     [audience_id |-> audienceId, num_invalid_entries |-> 1]}

\* totalReceived and totalInvalid of the batched upload
totalReceived(results) == Total(results, "num_received")

\* mutant: the last batch's count is reported instead of the sum
totalInvalid_Last(results) == OrZero(results[Len(results)], "num_invalid_entries")

totalInvalid(results) == Total(results, "num_invalid_entries")

UploadReturn(s, body) ==
    IF s.flow = "sync" THEN SyncReturn(s, TRUE, s.aid)
    ELSE Finish(s, TRUE, s.aid, "ok", body)

\* mutant: a failed batch is skipped and the loop goes on
UploadThrow_Continue(s) ==
    IF s.n > MAX_BATCH_SIZE /\ s.chunk + 1 < Len(Batches(s.n))
    THEN [s EXCEPT !.chunk = @ + 1]
    ELSE UploadReturn(s, NoBody)

\* mutant: the failure is turned into a result the Sync flow does not read
UploadThrow_Swallowed(s) ==
    IF s.flow = "sync" THEN SyncReturn(s, TRUE, s.aid)
    ELSE Raise(s)

\* a throw of sendAudienceUpdateRequest: updateCustomAudience rethrows it
UploadThrow(s) ==
    IF s.flow = "sync" THEN SyncReturn(s, FALSE, 0)
    ELSE Raise(s)

updateCustomAudience(s, audienceId, n) ==
    [s EXCEPT !.aid = audienceId, !.n = n, !.chunk = 0, !.results = <<>>,
              !.applied = <<>>, !.pc = "u_send"]

\* the slice the request in flight carries
CurrentSlice(s) ==
    IF s.n > MAX_BATCH_SIZE THEN Batches(s.n)[s.chunk + 1]
    ELSE [from |-> 0, to |-> s.n]

\* mutant: the identifiers are sent bare, not wrapped
Payload_Bare(slice) ==
    [schema |-> <<"PHONE_SHA256">>, first |-> slice.from + 1, last |-> slice.to,
     width |-> 0]

\* the payload of sendAudienceUpdateRequest for a slice: the schema and, as
\* data, the identifiers first..last of the input in their order, each one
\* wrapped in a tuple of `width` elements
Payload(slice) ==
    [schema |-> <<"PHONE_SHA256">>, first |-> slice.from + 1, last |-> slice.to,
     width |-> 1]

\* the code after a successful answer `resp` to the request in flight
AfterSend(s, resp) ==
    IF s.n > MAX_BATCH_SIZE
    THEN LET results == Append(s.results, resp)
         IN  IF s.chunk + 1 < Len(Batches(s.n))
             THEN [s EXCEPT !.results = results, !.chunk = @ + 1]
             ELSE UploadReturn([s EXCEPT !.results = results],
                               [audience_id |-> s.aid,
                                num_received |-> totalReceived(results),
                                num_invalid_entries |-> totalInvalid(results)])
    ELSE UploadReturn(s, resp)

\* ------------------------------------------ audience-update.ts, resolver
\* audiencesList.data.find(audience => audience.name === name): 0 when none
RECURSIVE FindByName(_, _)
FindByName(list, name) ==
    IF list = <<>> THEN 0
    ELSE IF Head(list).name = name THEN Head(list).id
    ELSE FindByName(Tail(list), name)

ResolverReturn(s, id) ==
    CASE s.flow = "sync" -> [s EXCEPT !.aid = id, !.pc = "s_put"]
      [] s.flow = "look" ->
            IF id # 0 THEN [s EXCEPT !.aid = id, !.pc = "l_put"]
            ELSE LookReturn(s, FALSE, 0, "notfound")
      [] OTHER -> Finish(s, TRUE, id, "ok", NoBody)

\* the ways the create call fails: !createResponse.ok, !newAudienceId
CreateFailures == {"status", "noid"}

\* mutant: the Sync flow goes on without an audience id
ResolverThrow_Ignored(s) ==
    CASE s.flow = "sync" -> [s EXCEPT !.aid = 0, !.pc = "s_put"]
      [] s.flow = "look" -> LookReturn(s, FALSE, 0, "notfound")
      [] OTHER -> Raise(s)

\* mutant: the Lookalike flow derives although the resolve has failed
ResolverThrow_LookDerives(s) ==
    CASE s.flow = "sync" -> SyncReturn(s, FALSE, 0)
      [] s.flow = "look" -> createLookalikeAudienceInternal(s, 0)
      [] OTHER -> Raise(s)

\* mutant: after a failed list call the resolver goes on to create
ResolverThrow_CreateAnyway(s) ==
    CASE s.log[Len(s.log)].op = "r_list" -> [s EXCEPT !.pc = "r_create"]
      [] s.flow = "sync" -> SyncReturn(s, FALSE, 0)
      [] s.flow = "look" -> LookReturn(s, FALSE, 0, "notfound")
      [] OTHER -> Raise(s)

\* a throw inside findOrCreateCustomAudience: its catch rethrows it
ResolverThrow(s) ==
    CASE s.flow = "sync" -> SyncReturn(s, FALSE, 0)
      [] s.flow = "look" -> LookReturn(s, FALSE, 0, "notfound")
      [] OTHER -> Raise(s)

\* mutant: the test of the cached value is inverted
AfterCacheGet_Inverted(s, cachedAudienceId) ==
    IF cachedAudienceId = 0 THEN ResolverReturn(s, cachedAudienceId)
    ELSE [s EXCEPT !.pc = "r_list"]

\* mutant: a cached id is looked up on the remote before it is returned
AfterCacheGet_Revalidate(s, cachedAudienceId) == [s EXCEPT !.pc = "r_list"]

\* mutant: the cached id is dropped and a new audience is created
AfterCacheGet_AlwaysCreate(s, cachedAudienceId) == [s EXCEPT !.pc = "r_create"]

\* the code after AUDIENCE_CACHE.get has answered cachedAudienceId
AfterCacheGet(s, cachedAudienceId) ==
    IF cachedAudienceId # 0 THEN ResolverReturn(s, cachedAudienceId)
    ELSE [s EXCEPT !.pc = "r_list"]

\* mutant: the listing is not searched and a new audience is always created
AfterList_AlwaysCreate(s, audiencesList) == [s EXCEPT !.pc = "r_create"]

\* the code after the list call has answered audiencesList
AfterList(s, audiencesList) ==
    LET existing == FindByName(audiencesList, s.name)
    IN  IF existing # 0 THEN [s EXCEPT !.aid = existing, !.pc = "r_put_found"]
        ELSE [s EXCEPT !.pc = "r_create"]

NewAudience(name, subtype) ==
    [id |-> Len(remote) + 1, name |-> name, subtype |-> subtype]

\* the ids of the account's audiences of that name and subtype
RemoteIds(name, subtype) ==
    {remote[i].id : i \in {j \in 1..Len(remote) :
                              remote[j].name = name /\ remote[j].subtype = subtype}}

\* ------------------------------------------------ insights.ts, collector
\* the remote's chain of insights pages, as the number of records on each
\* page; -1 is a page whose body has no data field
Chains == UNION {[1..k -> -1..MaxPageRecords] : k \in 1..MaxPages}

\* the InsightsResponse body of page i of the chain: paging.next is present
\* on every page but the last
InsightsPage(chain, i) ==
    LET data == IF chain[i] < 0 THEN NoBody
                ELSE [data |-> [k \in 1..chain[i] |-> [page |-> i, k |-> k]]]
        paging == IF i < Len(chain) THEN [next |-> i + 1] ELSE NoBody
    IN  data @@ paging

\* the body of page i of a remote that never stops paging: the pages of the
\* chain over and over, each with a paging.next
EndlessPage(chain, i) ==
    LET n == chain[((i - 1) % Len(chain)) + 1]
        data == IF n < 0 THEN NoBody
                ELSE [data |-> [k \in 1..n |-> [page |-> i, k |-> k]]]
    IN  data @@ [next |-> i + 1]

\* the body the remote answers the request for page i with
RemotePage(s, i) ==
    IF s.endless THEN EndlessPage(s.chain, i) ELSE InsightsPage(s.chain, i)

\* data.data || []
DataOrEmpty(data) == IF "data" \in DOMAIN data THEN data.data ELSE <<>>

\* data.paging?.next, 0 when undefined
NextOrNone(data) == IF "next" \in DOMAIN data THEN data.next ELSE 0

\* -------------------------------------- optimizationEngine.ts, metrics
CampaignLists == UNION {[1..k -> {"ACTIVE", "PAUSED"}] : k \in 0..MaxCampaigns}

\* campaigns.data.filter(campaign => campaign.status === 'ACTIVE').map(c => c.id):
\* the campaign at position i of the listing has id i
RECURSIVE ActiveIdsFrom(_, _)
ActiveIdsFrom(campaigns, i) ==
    IF i > Len(campaigns) THEN <<>>
    ELSE (IF campaigns[i] = "ACTIVE" THEN <<i>> ELSE <<>>)
            \o ActiveIdsFrom(campaigns, i + 1)

activeCampaignIds(campaigns) == ActiveIdsFrom(campaigns, 1)

\* processInsightsData: one report per record, in order
processInsightsData(insights) ==
    [i \in 1..Len(insights.data) |-> [id |-> insights.data[i], metrics |-> NoBody]]

\* runMetricsAnalysis after fetchMetrics has returned fetchResult
runMetricsAnalysis(s, success, msg, data) ==
    IF ~success \/ data = NoBody THEN Finish(s, success, 0, msg, data)
    ELSE Finish(s, TRUE, 0, "analyzed",
                [metrics |-> data, insightsCount |-> Len(data.insights)])

\* fetchMetrics' result, on every path
MetricsReturn(s, success, msg, data) ==
    IF s.entry = "analysis" THEN runMetricsAnalysis(s, success, msg, data)
    ELSE Finish(s, success, 0, msg, data)

\* mutant: fetchMetrics lets the failure through to its caller
MetricsThrow_Uncaught(s) == Raise(s)

\* a throw inside fetchMetrics: its catch turns it into a result
MetricsThrow(s) == MetricsReturn(s, FALSE, "error", NoBody)

\* mutant: an empty campaign listing still goes on to the collection
AfterCampaigns_NoEarlyReturn(s, campaigns) ==
    [s EXCEPT !.campaigns = campaigns, !.pc = "m_put_active"]

\* the code after getCampaigns has answered
AfterCampaigns(s, campaigns) ==
    IF Len(activeCampaignIds(campaigns)) = 0
    THEN MetricsReturn([s EXCEPT !.campaigns = campaigns], TRUE, "noactive", NoBody)
    ELSE [s EXCEPT !.campaigns = campaigns, !.pc = "m_put_active"]

\* mutant: a snapshot is stored even when it holds no report
AfterInsights_StoresEmpty(s, insightsResponse) ==
    LET processedInsights == processInsightsData(insightsResponse)
    IN  [s EXCEPT !.metricsData = [timestamp |-> runs,
                                   insights |-> processedInsights],
                  !.pc = "m_put_last"]

\* the code after getAdInsights has returned insightsResponse
AfterInsights(s, insightsResponse) ==
    LET processedInsights == processInsightsData(insightsResponse)
    IN  IF Len(processedInsights) = 0
        THEN MetricsReturn(s, TRUE, "nodata", NoBody)
        ELSE [s EXCEPT !.metricsData = [timestamp |-> runs,
                                        insights |-> processedInsights],
                       !.pc = "m_put_last"]

\* the code after AUDIENCE_CACHE.get(LAST_METRICS) has answered
AfterStoredGet(s, storedMetricsJson) ==
    IF storedMetricsJson = NoBody THEN Finish(s, FALSE, 0, "nometrics", NoBody)
    ELSE Finish(s, TRUE, 0, "ok", storedMetricsJson)

\* getAdInsights' return of { data: allData, paging }
InsightsReturn(s) ==
    IF s.flow = "metrics" THEN AfterInsights(s, [data |-> s.allData])
    ELSE Finish(s, TRUE, 0, "ok", [data |-> s.allData])

\* mutant: a failed first request ends the collection like a failed follow-up
InsightsThrow_Break(s) == InsightsReturn(s)

\* a throw inside getAdInsights: the catch rethrows it
InsightsThrow(s) ==
    IF s.flow = "metrics" THEN MetricsThrow(s)
    ELSE Raise(s)

\* mutant: the loop gives up after the second page
InsightsLoop_TwoPages(s) ==
    IF s.nextPage = 2 THEN [s EXCEPT !.pc = "i_next"] ELSE InsightsReturn(s)

\* the while (nextPage) test of getAdInsights
InsightsLoop(s) ==
    IF s.nextPage # 0 THEN [s EXCEPT !.pc = "i_next"] ELSE InsightsReturn(s)

\* the code after the first page has been fetched and parsed
AfterFirstPage(s, data) ==
    InsightsLoop([s EXCEPT !.allData = DataOrEmpty(data),
                           !.nextPage = NextOrNone(data)])

\* mutant: the cursor is not advanced past the second page
AfterNextPage_Short(s, nextData) ==
    InsightsLoop([s EXCEPT !.allData = @ \o DataOrEmpty(nextData),
                           !.nextPage = 0])

\* the code after a follow-up page has been fetched and parsed
AfterNextPage(s, nextData) ==
    InsightsLoop([s EXCEPT !.allData = @ \o DataOrEmpty(nextData),
                           !.nextPage = NextOrNone(nextData)])

\* a follow-up response that is not ok: the loop is left by break
NextPageNotOk(s) == InsightsReturn(s)

getAdInsights(s, chain) ==
    [s EXCEPT !.chain = chain, !.allData = <<>>, !.nextPage = 0, !.pc = "i_first"]

\* --------------------------------------------------- kvStore.ts, wrappers
\* the values the wrappers are asked to store
KvValues == {1, 2}

get(s, name) == [s EXCEPT !.name = name, !.pc = "k_get"]
put(s, name, value) == [s EXCEPT !.name = name, !.aid = value, !.pc = "k_put"]
del(s, name) == [s EXCEPT !.name = name, !.pc = "k_del"]

\* get: return await kv.get(key)
GetReturn(s, value) == Finish(s, TRUE, value, "value", NoBody)

\* mutant: the catch of get rethrows
GetCatch_Rethrows(s) == Raise(s)

\* get: catch, return null
GetCatch(s) == Finish(s, TRUE, 0, "null", NoBody)

\* put and del: return true
WriteReturn(s) == Finish(s, TRUE, 0, "true", NoBody)

\* put and del: catch, return false
WriteCatch(s) == Finish(s, FALSE, 0, "false", NoBody)

\* ----------------------------------------------------------------- Init
InitialAudience == [id |-> 1, name |-> PhoneAudience, subtype |-> "CUSTOM"]

Init ==
    /\ proc = [p \in Procs |-> IdleProc]
    /\ runs = 0
    /\ faults = 0
    /\ \/ remote = <<>> /\ kv = EmptyKV
       \/ remote = <<InitialAudience>> /\ kv = EmptyKV
       \/ /\ remote = <<InitialAudience>>
          /\ kv = [EmptyKV EXCEPT ![audienceIdKeyInKV(PhoneAudience)] = 1]

\* -------------------------------------------------------------- actions
\* slot 2 is used only once slot 1 has been: the slots are interchangeable
CanStart(p) ==
    /\ proc[p].pc \in {"idle", "done"}
    /\ runs < MaxRuns
    /\ p = 1 \/ proc[1].pc # "idle"
CanFault == faults < MaxFaults

Fresh(p, entry) ==
    LET s == proc[p]
    IN  [IdleProc EXCEPT
            !.entry = entry,
            !.snap0 = kv[LAST_METRICS],
            !.prev = [entry |-> s.entry, name |-> s.name, ok |-> s.ret.ok,
                      id |-> s.ret.id,
                      creates |-> Count(s.log, "r_create"),
                      msg |-> s.ret.msg, snap0 |-> s.snap0,
                      country |-> s.country, ratio |-> s.ratio]]

Begin(p, s) ==
    /\ proc' = [proc EXCEPT ![p] = s]
    /\ runs' = runs + 1
    /\ UNCHANGED <<kv, remote, faults>>

Step(p, s) == proc' = [proc EXCEPT ![p] = s]
Fault == faults' = faults + 1

\* ------------------------------------------------------- utils/hash.ts
\* a string is the sequence of its characters
Digits == {"0", "1", "2", "3", "4", "5", "6", "7", "8", "9"}

RECURSIVE normalizePhone_First(_)
RECURSIVE normalizePhone(_)

\* mutant: replace without the g flag, only the first non-digit is removed
normalizePhone_First(phoneNumber) ==
    IF phoneNumber = <<>> THEN <<>>
    ELSE IF Head(phoneNumber) \notin Digits THEN Tail(phoneNumber)
    ELSE <<Head(phoneNumber)>> \o normalizePhone_First(Tail(phoneNumber))

\* phoneNumber.replace(/\D/g, ''): \D without the u flag is [^0-9]
normalizePhone(phoneNumber) ==
    IF phoneNumber = <<>> THEN <<>>
    ELSE (IF Head(phoneNumber) \in Digits THEN <<Head(phoneNumber)>> ELSE <<>>)
            \o normalizePhone(Tail(phoneNumber))

\* the hex digest of `data`: a string that starts with the mark "#" (no input
\* holds it) and differs for different data
hashSHA256(data) == <<"#">> \o data
hashPhoneForFacebook(phoneNumber) == hashSHA256(normalizePhone(phoneNumber))

\* the first of the phone numbers of syncPhoneAudience: '+7 (999) 123-45-67'
SamplePhone ==
    <<"+", "7", " ", "(", "9", "9", "9", ")", " ", "1", "2", "3", "-", "4", "5",
      "-", "6", "7">>

\* the phone strings drawn as inputs
PhoneChars == {"7", "9", "+", " ", "-"}
PhoneStrings ==
    UNION {[1..k -> PhoneChars] : k \in 0..MaxLen} \cup {SamplePhone}

\* the arrays drawn for hashPhoneArrayForFacebook: numbers that repeat, and
\* different spellings of one number
HashInputs == {<<"+", "7">>, <<"7">>, <<"9", "-">>}
PhoneArrays == UNION {[1..k -> HashInputs] : k \in 0..MaxPhones}

\* mutant: the digests are collected in the order they complete
AfterDigest_CompletionOrder(s, i, digest) ==
    LET t == [s EXCEPT !.outs[Len(s.order) + 1] = digest,
                       !.pending = @ \ {i}, !.order = Append(@, i)]
    IN  IF t.pending = {} THEN Finish(t, TRUE, 0, "ok", NoBody) ELSE t

\* hashPhoneArrayForFacebook once the digest of element i is there: Promise.all
\* keeps it at index i and fulfils when no promise is pending
AfterDigest(s, i, digest) ==
    LET t == [s EXCEPT !.outs[i] = digest,
                       !.pending = @ \ {i}, !.order = Append(@, i)]
    IN  IF t.pending = {} THEN Finish(t, TRUE, 0, "ok", NoBody) ELSE t

\* hashPhoneArrayForFacebook up to its await: every element is normalized
\* and its digest is started; an empty array is fulfilled with []
hashPhoneArrayForFacebook(s, phoneNumbers) ==
    LET t == [s EXCEPT !.phones = phoneNumbers,
                       !.pending = 1..Len(phoneNumbers),
                       !.outs = [i \in 1..Len(phoneNumbers) |-> <<>>],
                       !.order = <<>>, !.pc = "h_digest"]
    IN  IF phoneNumbers = <<>> THEN Finish(t, TRUE, 0, "ok", NoBody) ELSE t

\* the form of an identifier: "hashed" (a digest), "digits" (normalized) or
\* "raw" (as entered)
FormOf(identifier) ==
    IF identifier # <<>> /\ identifier[1] = "#" THEN "hashed"
    ELSE IF \A i \in 1..Len(identifier) : identifier[i] \in Digits THEN "digits"
    ELSE "raw"

\* syncPhoneAudience up to its first await: the phone numbers are raw and the
\* first three of them are written to the console
syncPhoneAudience(s) ==
    [s EXCEPT !.flow = "sync", !.flows = Append(@, "sync"),
              !.name = PhoneAudience, !.idform = FormOf(SamplePhone),
              !.printed = @ \cup {FormOf(SamplePhone)}, !.pc = "s_hash"]

StartScheduled(p) ==
    /\ CanStart(p)
    /\ Begin(p, syncPhoneAudience(Fresh(p, "scheduled")))

StartSync(p) ==
    /\ CanStart(p)
    /\ Begin(p, syncPhoneAudience(Fresh(p, "sync")))

StartLookalike(p) ==
    /\ CanStart(p)
    /\ Begin(p, createPhoneLookalikeAudience(Fresh(p, "lookalike")))

StartResolve(p) ==
    /\ CanStart(p)
    /\ \E name \in Names :
          Begin(p, [Fresh(p, "resolve") EXCEPT !.name = name, !.pc = "r_get"])

\* a resolveOrCreate called once every invocation started so far has ended
StartLaterResolve(p) ==
    /\ \A q \in Procs : proc[q].pc = "done"
    /\ runs <= MaxRuns
    /\ \E name \in Names :
          Begin(p, [Fresh(p, "resolve") EXCEPT !.name = name, !.pc = "r_get"])

StartUpload(p) ==
    /\ CanStart(p)
    /\ \E n \in UploadSizes :
          Begin(p, updateCustomAudience(
                      [Fresh(p, "upload") EXCEPT !.idform = "hashed"], 1, n))

StartDerive(p) ==
    /\ CanStart(p)
    /\ \E c \in Countries, r \in Ratios :
          Begin(p, createLookalikeAudience(Fresh(p, "derive"), 1, c, r))

\* syncPhoneAudience: hashPhoneArrayForFacebook has settled
S_Hash(p) ==
    LET s == proc[p]
    IN  /\ s.pc = "s_hash"
        /\ \/ /\ Step(p, [Log(s, "hash", TRUE, 0) EXCEPT
                             !.idform = FormOf(hashPhoneForFacebook(SamplePhone)),
                             !.printed = @ \cup {FormOf(hashPhoneForFacebook(SamplePhone))},
                             !.pc = "r_get"])
              /\ UNCHANGED <<kv, remote, runs, faults>>
           \/ /\ CanFault /\ Fault
              /\ Step(p, SyncReturn(Log(s, "hash", FALSE, 0), FALSE, 0))
              /\ UNCHANGED <<kv, remote, runs>>

\* findOrCreateCustomAudience: AUDIENCE_CACHE.get has settled
R_Get(p) ==
    LET s == proc[p]
        cachedAudienceId == kv[audienceIdKeyInKV(s.name)]
    IN  /\ s.pc = "r_get"
        /\ \/ /\ Step(p, AfterCacheGet(
                            [Log(s, "r_kvget", TRUE, cachedAudienceId) EXCEPT
                                !.seen = IF cachedAudienceId = 0
                                         THEN RemoteIds(s.name, "CUSTOM") ELSE {}],
                            cachedAudienceId))
              /\ UNCHANGED <<kv, remote, runs, faults>>
           \/ /\ CanFault /\ Fault
              /\ Step(p, ResolverThrow(Log(s, "r_kvget", FALSE, 0)))
              /\ UNCHANGED <<kv, remote, runs>>

\* findOrCreateCustomAudience: the list call has answered
R_List(p) ==
    LET s == proc[p]
    IN  /\ s.pc = "r_list"
        /\ \/ /\ Step(p, AfterList(Log(s, "r_list", TRUE, Len(remote)), remote))
              /\ UNCHANGED <<kv, remote, runs, faults>>
           \/ /\ CanFault /\ Fault
              /\ Step(p, ResolverThrow(Log(s, "r_list", FALSE, 0)))
              /\ UNCHANGED <<kv, remote, runs>>

\* findOrCreateCustomAudience: the put of the listed audience's id has settled
R_PutFound(p) ==
    LET s == proc[p]
    IN  /\ s.pc = "r_put_found"
        /\ \/ /\ kv' = [kv EXCEPT ![audienceIdKeyInKV(s.name)] = s.aid]
              /\ Step(p, ResolverReturn(Log(s, "r_kvput", TRUE, s.aid), s.aid))
              /\ UNCHANGED <<remote, runs, faults>>
           \/ /\ CanFault /\ Fault
              /\ Step(p, ResolverThrow(Log(s, "r_kvput", FALSE, s.aid)))
              /\ UNCHANGED <<kv, remote, runs>>

\* findOrCreateCustomAudience: the create call has answered; a response that
\* is not ok ("status") and a body without id ("noid") both throw
R_Create(p) ==
    LET s == proc[p]
        new == NewAudience(s.name, "CUSTOM")
    IN  /\ s.pc = "r_create"
        /\ \/ /\ remote' = Append(remote, new)
              /\ Step(p, [Log(s, "r_create", TRUE, new.id) EXCEPT
                             !.aid = new.id, !.pc = "r_put_new"])
              /\ UNCHANGED <<kv, runs, faults>>
           \/ /\ CanFault /\ Fault
              /\ \E cause \in CreateFailures :
                    Step(p, ResolverThrow(
                              [s EXCEPT !.log = Append(@,
                                  [flow |-> s.flow, op |-> "r_create",
                                   ok |-> FALSE, val |-> 0, cause |-> cause])]))
              /\ UNCHANGED <<kv, remote, runs>>

\* mutant: the put does not overwrite an id already stored
R_PutNew_KeepFirst(p) ==
    LET s == proc[p]
        key == audienceIdKeyInKV(s.name)
    IN  /\ s.pc = "r_put_new"
        /\ kv' = IF kv[key] # 0 THEN kv ELSE [kv EXCEPT ![key] = s.aid]
        /\ Step(p, ResolverReturn(Log(s, "r_kvput", TRUE, s.aid), s.aid))
        /\ UNCHANGED <<remote, runs, faults>>

\* findOrCreateCustomAudience: the put of the created audience's id has settled
R_PutNew(p) ==
    LET s == proc[p]
    IN  /\ s.pc = "r_put_new"
        /\ \/ /\ kv' = [kv EXCEPT ![audienceIdKeyInKV(s.name)] = s.aid]
              /\ Step(p, ResolverReturn(Log(s, "r_kvput", TRUE, s.aid), s.aid))
              /\ UNCHANGED <<remote, runs, faults>>
           \/ /\ CanFault /\ Fault
              /\ Step(p, ResolverThrow(Log(s, "r_kvput", FALSE, s.aid)))
              /\ UNCHANGED <<kv, remote, runs>>

\* syncPhoneAudience: its own put of the audience id has settled
S_Put(p) ==
    LET s == proc[p]
    IN  /\ s.pc = "s_put"
        /\ \/ /\ kv' = [kv EXCEPT ![audienceIdKeyInKV(PhoneAudience)] = s.aid]
              /\ Step(p, updateCustomAudience(Log(s, "s_kvput", TRUE, s.aid),
                                              s.aid, PhoneCount))
              /\ UNCHANGED <<remote, runs, faults>>
           \/ /\ CanFault /\ Fault
              /\ Step(p, SyncReturn(Log(s, "s_kvput", FALSE, s.aid), FALSE, 0))
              /\ UNCHANGED <<kv, remote, runs>>

\* sendAudienceUpdateRequest: the upload call in flight has answered
U_Send(p) ==
    LET s == proc[p]
        slice == CurrentSlice(s)
    IN  /\ s.pc = "u_send"
        /\ \/ /\ \E resp \in UploadResponses(s.aid, slice.to - slice.from) :
                    Step(p, AfterSend([Log(s, "upload", TRUE,
                                           [slice |-> slice, resp |-> resp,
                                            form |-> s.idform,
                                            payload |-> Payload(slice)])
                                          EXCEPT !.applied = Append(@, slice)], resp))
              /\ UNCHANGED <<kv, remote, runs, faults>>
           \/ /\ CanFault /\ Fault
              /\ Step(p, UploadThrow(Log(s, "upload", FALSE,
                                          [slice |-> slice, resp |-> NoBody,
                                           form |-> s.idform,
                                           payload |-> Payload(slice)])))
              /\ UNCHANGED <<kv, remote, runs>>

\* createPhoneLookalikeAudience: the get of the source id has settled
L_Get(p) ==
    LET s == proc[p]
        sourceAudienceId == kv[audienceIdKeyInKV(s.name)]
        t == Log(s, "l_kvget", TRUE, sourceAudienceId)
    IN  /\ s.pc = "l_get"
        /\ \/ /\ Step(p, IF sourceAudienceId = 0
                         THEN [t EXCEPT !.viaRemote = TRUE, !.pc = "r_get"]
                         ELSE createLookalikeAudienceInternal(t, sourceAudienceId))
              /\ UNCHANGED <<kv, remote, runs, faults>>
           \/ /\ CanFault /\ Fault
              /\ Step(p, LookReturn(Log(s, "l_kvget", FALSE, 0), FALSE, 0, "error"))
              /\ UNCHANGED <<kv, remote, runs>>

\* createPhoneLookalikeAudience: its put of the resolved source id has settled
L_Put(p) ==
    LET s == proc[p]
    IN  /\ s.pc = "l_put"
        /\ \/ /\ kv' = [kv EXCEPT ![audienceIdKeyInKV(s.name)] = s.aid]
              /\ Step(p, createLookalikeAudienceInternal(
                            Log(s, "l_kvput", TRUE, s.aid), s.aid))
              /\ UNCHANGED <<remote, runs, faults>>
           \/ /\ CanFault /\ Fault
              /\ Step(p, LookReturn(Log(s, "l_kvput", FALSE, s.aid), FALSE, 0, "notfound"))
              /\ UNCHANGED <<kv, remote, runs>>

\* createLookalikeAudience: AUDIENCE_CACHE.get has settled
D_Get(p) ==
    LET s == proc[p]
        cachedLookalikeId == kv[lookalikeIdKeyInKV(LookalikeName, s.country, s.ratio)]
        t == Log(s, "d_kvget", TRUE, cachedLookalikeId)
    IN  /\ s.pc = "d_get"
        /\ \/ /\ Step(p, IF cachedLookalikeId # 0
                         THEN DeriveReturn(t, cachedLookalikeId)
                         ELSE [t EXCEPT !.pc = "d_create"])
              /\ UNCHANGED <<kv, remote, runs, faults>>
           \/ /\ CanFault /\ Fault
              /\ Step(p, DeriveThrow(Log(s, "d_kvget", FALSE, 0)))
              /\ UNCHANGED <<kv, remote, runs>>

\* createLookalikeAudience: the create call has answered; a response that is
\* not ok and a response without an id both throw before the put
D_Create(p) ==
    LET s == proc[p]
        new == NewAudience(LookalikeName, "LOOKALIKE")
    IN  /\ s.pc = "d_create"
        /\ \/ /\ remote' = Append(remote, new)
              /\ Step(p, [Log(s, "d_create", TRUE, new.id) EXCEPT
                             !.lid = new.id, !.pc = "d_put"])
              /\ UNCHANGED <<kv, runs, faults>>
           \/ /\ CanFault /\ Fault
              /\ Step(p, DeriveThrow(Log(s, "d_create", FALSE, 0)))
              /\ UNCHANGED <<kv, remote, runs>>

\* mutant: the new id is returned without being written to the cache
D_Put_Skipped(p) ==
    LET s == proc[p]
    IN  /\ s.pc = "d_put"
        /\ Step(p, DeriveReturn(Log(s, "d_kvput", TRUE, s.lid), s.lid))
        /\ UNCHANGED <<kv, remote, runs, faults>>

\* mutant: the id of the source audience is stored under the lookalike key
D_Put_SourceId(p) ==
    LET s == proc[p]
    IN  /\ s.pc = "d_put"
        /\ kv' = [kv EXCEPT
                    ![lookalikeIdKeyInKV(LookalikeName, s.country, s.ratio)] = s.aid]
        /\ Step(p, DeriveReturn(Log(s, "d_kvput", TRUE, s.lid), s.lid))
        /\ UNCHANGED <<remote, runs, faults>>

\* createLookalikeAudience: the put of the new lookalike id has settled
D_Put(p) ==
    LET s == proc[p]
    IN  /\ s.pc = "d_put"
        /\ \/ /\ kv' = [kv EXCEPT
                          ![lookalikeIdKeyInKV(LookalikeName, s.country, s.ratio)] = s.lid]
              /\ Step(p, DeriveReturn(Log(s, "d_kvput", TRUE, s.lid), s.lid))
              /\ UNCHANGED <<remote, runs, faults>>
           \/ /\ CanFault /\ Fault
              /\ Step(p, DeriveThrow(Log(s, "d_kvput", FALSE, s.lid)))
              /\ UNCHANGED <<kv, remote, runs>>

\* the collector keeps no state between calls: one call per behaviour
StartInsights(p) ==
    /\ proc[p].pc = "idle"
    /\ \E chain \in Chains :
          Begin(p, getAdInsights(Fresh(p, "insights"), chain))

\* getAdInsights: the fetch of the first page has settled; fetch or json()
\* rejecting and a response that is not ok both throw
I_First(p) ==
    LET s == proc[p]
    IN  /\ s.pc = "i_first"
        /\ \/ /\ Step(p, AfterFirstPage(
                            Log(s, "fetch", TRUE, [page |-> 1, kind |-> "ok"]),
                            RemotePage(s, 1)))
              /\ UNCHANGED <<kv, remote, runs, faults>>
           \/ /\ CanFault /\ Fault
              /\ \E kind \in {"status", "throw"} :
                    Step(p, InsightsThrow(
                              Log(s, "fetch", FALSE, [page |-> 1, kind |-> kind])))
              /\ UNCHANGED <<kv, remote, runs>>

\* getAdInsights: the fetch of a follow-up page has settled; a response that
\* is not ok breaks the loop, fetch or json() rejecting throws
I_Next(p) ==
    LET s == proc[p]
        i == s.nextPage
    IN  /\ s.pc = "i_next"
        /\ Count(s.log, "fetch") < MaxFetches
        /\ \/ /\ Step(p, AfterNextPage(
                            Log(s, "fetch", TRUE, [page |-> i, kind |-> "ok"]),
                            RemotePage(s, i)))
              /\ UNCHANGED <<kv, remote, runs, faults>>
           \/ /\ CanFault /\ Fault
              /\ Step(p, NextPageNotOk(
                            Log(s, "fetch", FALSE, [page |-> i, kind |-> "status"])))
              /\ UNCHANGED <<kv, remote, runs>>
           \/ /\ CanFault /\ Fault
              /\ Step(p, InsightsThrow(
                            Log(s, "fetch", FALSE, [page |-> i, kind |-> "throw"])))
              /\ UNCHANGED <<kv, remote, runs>>

\* a collection against a remote whose chain of pages ends, or never does
StartCollect(p) ==
    /\ proc[p].pc = "idle"
    /\ \E chain \in Chains, endless \in BOOLEAN :
          Begin(p, [getAdInsights(Fresh(p, "insights"), chain)
                        EXCEPT !.endless = endless])

CanStartMetrics(p) ==
    /\ proc[p].pc \in {"idle", "done"}
    /\ runs < MaxMetricsRuns

fetchMetrics(s) == [s EXCEPT !.flow = "metrics", !.pc = "m_campaigns"]

StartMetrics(p) ==
    /\ CanStartMetrics(p)
    /\ Begin(p, fetchMetrics(Fresh(p, "metrics")))

StartAnalysis(p) ==
    /\ CanStartMetrics(p)
    /\ Begin(p, fetchMetrics(Fresh(p, "analysis")))

StartStored(p) ==
    /\ CanStartMetrics(p)
    /\ Begin(p, [Fresh(p, "stored") EXCEPT !.flow = "stored", !.pc = "g_get"])

\* ------------------------------------------- metrics.ts, the summary
\* A number is read from a string, a sequence of characters.  Money is kept
\* in hundredths, so parseFloat yields hundredths and reads at most two
\* decimals; NaN is the value no parse of the drawn strings yields.
NaN == -1
Undefined == <<"u", "n", "d", "e", "f", "i", "n", "e", "d">>
DigitValue(c) == CHOOSE n \in 0..9 : ToString(n) = c

RECURSIVE LeadingDigits(_)
LeadingDigits(str) ==
    IF str = <<>> \/ Head(str) \notin Digits THEN <<>>
    ELSE <<Head(str)>> \o LeadingDigits(Tail(str))

RECURSIVE NumberOf(_)
NumberOf(ds) ==
    IF ds = <<>> THEN 0
    ELSE NumberOf(SubSeq(ds, 1, Len(ds) - 1)) * 10 + DigitValue(ds[Len(ds)])

\* parseInt(str): the leading digits, NaN when there is none
parseInt(str) ==
    LET ds == LeadingDigits(str)
    IN  IF ds = <<>> THEN NaN ELSE NumberOf(ds)

\* parseFloat(str), in hundredths: the leading digits and the decimals after
\* a point, NaN when there is neither
parseFloat(str) ==
    LET ip == LeadingDigits(str)
        rest == SubSeq(str, Len(ip) + 1, Len(str))
        fp == IF rest # <<>> /\ rest[1] = "." THEN LeadingDigits(Tail(rest))
              ELSE <<>>
        hundredths == IF Len(fp) = 0 THEN 0
                      ELSE IF Len(fp) = 1 THEN DigitValue(fp[1]) * 10
                      ELSE DigitValue(fp[1]) * 10 + DigitValue(fp[2])
    IN  IF ip = <<>> /\ fp = <<>> THEN NaN
        ELSE NumberOf(ip) * 100 + hundredths

\* x || 0 for a number
OrElseZero(x) == IF x = NaN THEN 0 ELSE x

\* report.metrics.field, undefined when the report lacks it
MetricOf(metrics, field) ==
    IF field \in DOMAIN metrics THEN metrics[field] ELSE Undefined

ConversionTypes == {"purchase", "lead", "complete_registration"}

RECURSIVE FindConversion_Last(_)
RECURSIVE FindConversion(_)

\* mutant: the last matching action is taken
FindConversion_Last(actions) ==
    IF actions = <<>> THEN NoBody
    ELSE IF actions[Len(actions)].action_type \in ConversionTypes
    THEN actions[Len(actions)]
    ELSE FindConversion_Last(SubSeq(actions, 1, Len(actions) - 1))

\* actions.find(action => action.action_type is one of the three): NoBody
\* when none
FindConversion(actions) ==
    IF actions = <<>> THEN NoBody
    ELSE IF Head(actions).action_type \in ConversionTypes THEN Head(actions)
    ELSE FindConversion(Tail(actions))

\* what one report adds to totalConversions
ConversionsOf(metrics) ==
    IF "actions" \notin DOMAIN metrics THEN 0
    ELSE LET conversions == FindConversion(metrics.actions)
         IN  IF conversions = NoBody THEN 0
             ELSE OrElseZero(parseInt(conversions.value))

\* the totals after the forEach over insights[i..]
RECURSIVE SummaryTotals(_, _, _)
SummaryTotals(insights, i, acc) ==
    IF i > Len(insights) THEN acc
    ELSE LET m == insights[i].metrics
         IN  SummaryTotals(insights, i + 1,
                [totalSpend |-> acc.totalSpend
                                  + OrElseZero(parseFloat(MetricOf(m, "spend"))),
                 totalImpressions |-> acc.totalImpressions
                                  + OrElseZero(parseInt(MetricOf(m, "impressions"))),
                 totalClicks |-> acc.totalClicks
                                  + OrElseZero(parseInt(MetricOf(m, "clicks"))),
                 totalConversions |-> acc.totalConversions + ConversionsOf(m)])

\* a quotient num/den, 0 when the denominator is not positive; totalSpend is
\* in hundredths, which the spend ratios carry in their denominators (and
\* avgCPM in its factor: 1000/100)
Quotient(num, den) ==
    IF den > 0 THEN [num |-> num, den |-> den] ELSE [num |-> 0, den |-> 1]

calculateMetricsSummary(insights) ==
    LET tot == SummaryTotals(insights, 1,
                   [totalSpend |-> 0, totalImpressions |-> 0, totalClicks |-> 0,
                    totalConversions |-> 0])
    IN  tot @@
        [avgCTR |-> Quotient(tot.totalClicks * 100, tot.totalImpressions),
         avgCPC |-> Quotient(tot.totalSpend, tot.totalClicks * 100),
         avgCPM |-> Quotient(tot.totalSpend * 10, tot.totalImpressions),
         avgCPA |-> Quotient(tot.totalSpend, tot.totalConversions * 100)]

Str2(a, b) == <<a, b>>
Str3(a, b, c) == <<a, b, c>>
Action(type, value) == [action_type |-> type, value |-> value]

\* the metrics of the reports drawn: the two records of the scenario, fields
\* that are missing or hold no number, zero counts, decimals, and action
\* lists with none, one and several conversion actions
ReportsDrawn ==
    << [spend |-> Str2("1", "0"), impressions |-> Str3("1", "0", "0"),
        clicks |-> <<"5">>, actions |-> <<Action("purchase", <<"1">>)>>],
       [spend |-> Str2("2", "0"), impressions |-> Str3("1", "0", "0"),
        clicks |-> <<"5">>],
       [spend |-> Str3("0", ".", "5"), impressions |-> <<"0">>,
        clicks |-> <<"0">>,
        actions |-> <<Action("link_click", <<"3">>), Action("lead", <<"2">>),
                      Action("purchase", <<"1">>)>>],
       [spend |-> Str3("a", "b", "c"), clicks |-> <<"5">>, actions |-> <<>>],
       NoBody,
       [spend |-> Str2("2", "0"), impressions |-> Str3("1", "0", "0"),
        clicks |-> <<"x">>, actions |-> <<Action("link_click", <<"3">>)>>],
       [impressions |-> Str2("1", "0"),
        actions |-> <<Action("complete_registration", <<"x">>),
                      Action("lead", <<"2">>)>>] >>

Picks == UNION {[1..k -> 1..Len(ReportsDrawn)] : k \in 0..MaxReports}

StartSummary(p) ==
    /\ proc[p].pc = "idle"
    /\ \E picks \in Picks :
          Begin(p, [Fresh(p, "summary") EXCEPT !.arg = picks, !.pc = "c_call"])

C_Call(p) ==
    LET s == proc[p]
        insights == [i \in 1..Len(s.arg) |->
                        [id |-> s.arg[i], metrics |-> ReportsDrawn[s.arg[i]]]]
    IN  /\ s.pc = "c_call"
        /\ Step(p, Finish(s, TRUE, 0, "ok", calculateMetricsSummary(insights)))
        /\ UNCHANGED <<kv, remote, runs, faults>>

\* normalizePhone applied to a string, and then to its own result
StartNormalize(p) ==
    /\ proc[p].pc = "idle"
    /\ \E x \in PhoneStrings :
          Begin(p, [Fresh(p, "normalize") EXCEPT !.arg = x, !.pc = "n_call"])

N_Call(p) ==
    LET s == proc[p]
        x == IF s.outs = <<>> THEN s.arg ELSE s.outs[Len(s.outs)]
        t == [s EXCEPT !.outs = Append(@, normalizePhone(x))]
    IN  /\ s.pc = "n_call"
        /\ Step(p, IF Len(t.outs) = 2 THEN Finish(t, TRUE, 0, "ok", NoBody) ELSE t)
        /\ UNCHANGED <<kv, remote, runs, faults>>

StartHashAll(p) ==
    /\ proc[p].pc = "idle"
    /\ \E phoneNumbers \in PhoneArrays :
          Begin(p, hashPhoneArrayForFacebook(Fresh(p, "hashall"), phoneNumbers))

\* hashSHA256: crypto.subtle.digest has settled for one of the elements, in
\* any order; a rejection rejects Promise.all
H_Digest(p) ==
    LET s == proc[p]
    IN  /\ s.pc = "h_digest"
        /\ \E i \in s.pending :
              \/ /\ Step(p, AfterDigest(Log(s, "digest", TRUE, i), i,
                                        hashPhoneForFacebook(s.phones[i])))
                 /\ UNCHANGED <<kv, remote, runs, faults>>
              \/ /\ CanFault /\ Fault
                 /\ Step(p, Raise(Log(s, "digest", FALSE, i)))
                 /\ UNCHANGED <<kv, remote, runs>>

\* ----------------------------------------------- index.ts, fetch handler
Paths ==
    {"/api/sync-audience", "/api/create-lookalike", "/api/insights",
     "/api/metrics/collect", "/api/metrics/latest", "/"}
Envs == [FB_ACCESS_TOKEN : BOOLEAN, FB_AD_ACCOUNT_ID : BOOLEAN]

\* the entry point a path is routed to
RouteOf(path) ==
    CASE path = "/api/sync-audience" -> "sync"
      [] path = "/api/create-lookalike" -> "lookalike"
      [] path = "/api/insights" -> "insights"
      [] path = "/api/metrics/collect" -> "analysis"
      [] path = "/api/metrics/latest" -> "stored"
      [] OTHER -> "home"

\* mutant: only the access token is looked at
SecretsMissing_TokenOnly(env) == ~env.FB_ACCESS_TOKEN

\* !env.FB_ACCESS_TOKEN || !env.FB_AD_ACCOUNT_ID
SecretsMissing(env) == ~env.FB_ACCESS_TOKEN \/ ~env.FB_AD_ACCOUNT_ID

\* the fetch handler up to its first await, for a request to `path`; `chain`
\* is what the remote holds for /api/insights
fetch(s, path, env, chain) ==
    LET t == [s EXCEPT !.path = path, !.env = env]
    IN  IF SecretsMissing(env)
        THEN [t EXCEPT !.pc = "done", !.status = 500,
                       !.ret = [ok |-> FALSE, id |-> 0, msg |-> "nosecrets",
                                body |-> NoBody]]
        ELSE CASE path = "/api/sync-audience" -> syncPhoneAudience(t)
               [] path = "/api/create-lookalike" -> createPhoneLookalikeAudience(t)
               [] path = "/api/insights" -> getAdInsights(t, chain)
               [] path = "/api/metrics/collect" -> fetchMetrics(t)
               [] path = "/api/metrics/latest" ->
                      [t EXCEPT !.flow = "stored", !.pc = "g_get"]
               [] OTHER -> Finish(t, TRUE, 0, "home", NoBody)

StartHttp(p) ==
    /\ CanStart(p)
    /\ \E path \in Paths, env \in Envs :
       \E chain \in IF path = "/api/insights" /\ env = AllSecrets
                     THEN {c \in Chains : Len(c) <= 2} ELSE {<<>>} :
          Begin(p, fetch(Fresh(p, RouteOf(path)), path, env, chain))

\* fetchMetrics: getCampaigns has settled
M_Campaigns(p) ==
    LET s == proc[p]
    IN  /\ s.pc = "m_campaigns"
        /\ \/ /\ \E campaigns \in CampaignLists :
                    Step(p, AfterCampaigns(
                              Log(s, "campaigns", TRUE, Len(campaigns)), campaigns))
              /\ UNCHANGED <<kv, remote, runs, faults>>
           \/ /\ CanFault /\ Fault
              /\ Step(p, MetricsThrow(Log(s, "campaigns", FALSE, 0)))
              /\ UNCHANGED <<kv, remote, runs>>

\* fetchMetrics: the put of the active campaign ids has settled; the insights
\* request then meets some chain of pages
M_PutActive(p) ==
    LET s == proc[p]
        ids == activeCampaignIds(s.campaigns)
    IN  /\ s.pc = "m_put_active"
        /\ \/ /\ kv' = [kv EXCEPT ![ACTIVE_CAMPAIGNS] = [ids |-> ids]]
              /\ \E chain \in {c \in Chains : Len(c) <= 2} :
                    Step(p, getAdInsights(Log(s, "m_kvput", TRUE, ACTIVE_CAMPAIGNS),
                                          chain))
              /\ UNCHANGED <<remote, runs, faults>>
           \/ /\ CanFault /\ Fault
              /\ Step(p, MetricsThrow(Log(s, "m_kvput", FALSE, ACTIVE_CAMPAIGNS)))
              /\ UNCHANGED <<kv, remote, runs>>

\* fetchMetrics: the put of the snapshot has settled
M_PutLast(p) ==
    LET s == proc[p]
    IN  /\ s.pc = "m_put_last"
        /\ \/ /\ kv' = [kv EXCEPT ![LAST_METRICS] = s.metricsData]
              /\ Step(p, MetricsReturn(Log(s, "m_kvput", TRUE, LAST_METRICS),
                                        TRUE, "ok", s.metricsData))
              /\ UNCHANGED <<remote, runs, faults>>
           \/ /\ CanFault /\ Fault
              /\ Step(p, MetricsThrow(Log(s, "m_kvput", FALSE, LAST_METRICS)))
              /\ UNCHANGED <<kv, remote, runs>>

\* getStoredMetrics: the get of the snapshot has settled
G_Get(p) ==
    LET s == proc[p]
        storedMetricsJson == kv[LAST_METRICS]
    IN  /\ s.pc = "g_get"
        /\ \/ /\ Step(p, AfterStoredGet(Log(s, "g_kvget", TRUE, 0), storedMetricsJson))
              /\ UNCHANGED <<kv, remote, runs, faults>>
           \/ /\ CanFault /\ Fault
              /\ Step(p, Finish(Log(s, "g_kvget", FALSE, 0), FALSE, 0, "error", NoBody))
              /\ UNCHANGED <<kv, remote, runs>>

StartGet(p) ==
    /\ CanStart(p)
    /\ \E name \in Names : Begin(p, get(Fresh(p, "get"), name))

StartPut(p) ==
    /\ CanStart(p)
    /\ \E name \in Names, value \in KvValues :
          Begin(p, put(Fresh(p, "put"), name, value))

StartDel(p) ==
    /\ CanStart(p)
    /\ \E name \in Names : Begin(p, del(Fresh(p, "del"), name))

\* get: kv.get has settled
K_Get(p) ==
    LET s == proc[p]
        value == kv[audienceIdKeyInKV(s.name)]
    IN  /\ s.pc = "k_get"
        /\ \/ /\ Step(p, GetReturn(Log(s, "k_get", TRUE, value), value))
              /\ UNCHANGED <<kv, remote, runs, faults>>
           \/ /\ CanFault /\ Fault
              /\ Step(p, GetCatch(Log(s, "k_get", FALSE, 0)))
              /\ UNCHANGED <<kv, remote, runs>>

\* put: kv.put has settled
K_Put(p) ==
    LET s == proc[p]
    IN  /\ s.pc = "k_put"
        /\ \/ /\ kv' = [kv EXCEPT ![audienceIdKeyInKV(s.name)] = s.aid]
              /\ Step(p, WriteReturn(Log(s, "k_put", TRUE, s.aid)))
              /\ UNCHANGED <<remote, runs, faults>>
           \/ /\ CanFault /\ Fault
              /\ Step(p, WriteCatch(Log(s, "k_put", FALSE, s.aid)))
              /\ UNCHANGED <<kv, remote, runs>>

\* del: kv.delete has settled
K_Del(p) ==
    LET s == proc[p]
    IN  /\ s.pc = "k_del"
        /\ \/ /\ kv' = [kv EXCEPT ![audienceIdKeyInKV(s.name)] = 0]
              /\ Step(p, WriteReturn(Log(s, "k_del", TRUE, 0)))
              /\ UNCHANGED <<remote, runs, faults>>
           \/ /\ CanFault /\ Fault
              /\ Step(p, WriteCatch(Log(s, "k_del", FALSE, 0)))
              /\ UNCHANGED <<kv, remote, runs>>

\* the pipeline: overlapping invocations of the flows and of the resolver
Next ==
    \E p \in Procs :
        \/ StartScheduled(p)
        \/ StartSync(p)
        \/ StartLookalike(p)
        \/ StartResolve(p)
        \/ S_Hash(p)
        \/ R_Get(p)
        \/ R_List(p)
        \/ R_PutFound(p)
        \/ R_Create(p)
        \/ R_PutNew(p)
        \/ S_Put(p)
        \/ U_Send(p)
        \/ L_Get(p)
        \/ L_Put(p)
        \/ D_Get(p)
        \/ D_Create(p)
        \/ D_Put(p)

Spec == Init /\ [][Next]_vars

\* Sync invocations that may overlap, then a resolveOrCreate on its own
NextDouble ==
    \E p \in Procs :
        \/ StartSync(p)
        \/ StartLaterResolve(p)
        \/ S_Hash(p)
        \/ R_Get(p)
        \/ R_List(p)
        \/ R_PutFound(p)
        \/ R_Create(p)
        \/ R_PutNew(p)
        \/ S_Put(p)
        \/ U_Send(p)

SpecDouble == Init /\ [][NextDouble]_vars

\* the uploader called on its own, over identifier lists of every size class
NextUpload == StartUpload(1) \/ U_Send(1)

SpecUpload == Init /\ [][NextUpload]_vars

\* the deriver called on its own, over valid and invalid ratios
NextDerive ==
    \E p \in Procs :
        \/ StartDerive(p)
        \/ D_Get(p)
        \/ D_Create(p)
        \/ D_Put(p)

SpecDerive == Init /\ [][NextDerive]_vars

\* the insights collector called on its own, over every chain of pages
NextInsights == StartInsights(1) \/ I_First(1) \/ I_Next(1)

SpecInsights == Init /\ [][NextInsights]_vars

\* one collection; every request of the collector is answered in the end
NextCollect == StartCollect(1) \/ I_First(1) \/ I_Next(1)

SpecCollect ==
    /\ Init /\ [][NextCollect]_vars
    /\ WF_vars(I_First(1)) /\ WF_vars(I_Next(1))

\* the metrics entry points, one invocation after the other
NextMetrics ==
    \/ StartMetrics(1)
    \/ StartAnalysis(1)
    \/ StartStored(1)
    \/ M_Campaigns(1)
    \/ M_PutActive(1)
    \/ I_First(1)
    \/ I_Next(1)
    \/ M_PutLast(1)
    \/ G_Get(1)

SpecMetrics == Init /\ [][NextMetrics]_vars

\* every entry point of the pipeline, one invocation after the other
NextEntries ==
    \/ StartScheduled(1)
    \/ StartSync(1)
    \/ StartLookalike(1)
    \/ S_Hash(1)
    \/ R_Get(1)
    \/ R_List(1)
    \/ R_PutFound(1)
    \/ R_Create(1)
    \/ R_PutNew(1)
    \/ S_Put(1)
    \/ U_Send(1)
    \/ L_Get(1)
    \/ L_Put(1)
    \/ D_Get(1)
    \/ D_Create(1)
    \/ D_Put(1)
    \/ NextMetrics

SpecEntries == Init /\ [][NextEntries]_vars

\* the hash utilities, applied to drawn inputs
NextHash == StartNormalize(1) \/ N_Call(1) \/ StartHashAll(1) \/ H_Digest(1)

SpecHash == Init /\ [][NextHash]_vars

\* the summary, applied to drawn reports
NextSummary == StartSummary(1) \/ C_Call(1)

SpecSummary == Init /\ [][NextSummary]_vars

\* the requests to the fetch handler, one after the other
NextHttp ==
    \/ StartHttp(1)
    \/ S_Hash(1)
    \/ R_Get(1)
    \/ R_List(1)
    \/ R_PutFound(1)
    \/ R_Create(1)
    \/ R_PutNew(1)
    \/ S_Put(1)
    \/ U_Send(1)
    \/ L_Get(1)
    \/ L_Put(1)
    \/ D_Get(1)
    \/ D_Create(1)
    \/ D_Put(1)
    \/ M_Campaigns(1)
    \/ M_PutActive(1)
    \/ I_First(1)
    \/ I_Next(1)
    \/ M_PutLast(1)
    \/ G_Get(1)

SpecHttp == Init /\ [][NextHttp]_vars

\* the store wrappers, called by overlapping invocations
NextKV ==
    \E p \in Procs :
        \/ StartGet(p)
        \/ StartPut(p)
        \/ StartDel(p)
        \/ K_Get(p)
        \/ K_Put(p)
        \/ K_Del(p)

SpecKV == Init /\ [][NextKV]_vars

\* ======================================================================
\* Properties
\* ======================================================================
Done(s) == s.pc = "done"
AllOk(log) == \A i \in 1..Len(log) : log[i].ok
Last(log) == log[Len(log)]

\* no other invocation has been started in the behaviour
Alone(p) == \A q \in Procs \ {p} : proc[q].pc = "idle"

\* slot p runs its second resolveOrCreate of the same name, on its own, with
\* a store and a remote that have answered every call successfully
SecondResolve(p) ==
    /\ proc[p].entry = "resolve"
    /\ proc[p].prev.entry = "resolve"
    /\ proc[p].prev.name = proc[p].name
    /\ faults = 0
    /\ Alone(p)

\* C1: with a working store and remote, two consecutive resolveOrCreate calls
\* for the same name return the same audience id, the second call issues no
\* create call, and at most one create call is issued across both.
C1_SecondResolveSameId ==
    \A p \in Procs :
        LET s == proc[p]
        IN  SecondResolve(p) =>
                /\ s.pc \notin {"r_create", "r_put_new"}
                /\ Count(s.log, "r_create") = 0
                /\ s.prev.creates <= 1
                /\ Done(s) => /\ s.prev.ok /\ s.ret.ok
                              /\ s.ret.id # 0
                              /\ s.ret.id = s.prev.id

C1_Witness ==
    \E p \in Procs :
        /\ SecondResolve(p) /\ Done(proc[p])
        /\ proc[p].prev.creates = 1
        /\ proc[p].ret.id = proc[p].prev.id

\* C2 (as claimed): under any interleaving of overlapping invocations the
\* remote account holds at most one Custom Audience per name.
C2_AtMostOneAudiencePerName ==
    \A name \in Names : Cardinality(RemoteIds(name, "CUSTOM")) <= 1

\* the events of the resolver call an invocation made last
ResolverCall(log) ==
    LET gets == {i \in 1..Len(log) : log[i].op = "r_kvget"}
        first == CHOOSE i \in gets : \A j \in gets : j <= i
    IN  IF gets = {} THEN <<>> ELSE SubSeq(log, first, Len(log))

\* C3: when the cache lookup misses and the remote already holds an audience
\* of that name, the resolver issues no create call, returns the id of such
\* an audience, and has written that id to the cache when it returns.
C3_ListedAudienceReused ==
    \A p \in Procs :
        LET s == proc[p]
            call == ResolverCall(s.log)
        IN  s.seen # {} =>
                /\ s.pc \notin {"r_create", "r_put_new"}
                /\ Count(call, "r_create") = 0
                /\ (s.entry = "resolve" /\ Done(s) /\ AllOk(s.log)) =>
                        /\ s.ret.ok
                        /\ s.ret.id \in s.seen
                        /\ Last(s.log).op = "r_kvput"
                        /\ Last(s.log).val = s.ret.id

C3_Witness ==
    \E p \in Procs :
        /\ proc[p].entry = "resolve" /\ Done(proc[p]) /\ proc[p].ret.ok
        /\ proc[p].seen # {}
        /\ kv[audienceIdKeyInKV(proc[p].name)] = proc[p].ret.id

IsCacheHit(e) == e.op = "r_kvget" /\ e.ok /\ e.val # 0

\* after a cache hit the resolver call has ended: it makes no further call
C4_HitEndsCall ==
    \A p \in Procs :
        LET s == proc[p]
        IN  /\ \A i \in 1..Len(s.log) :
                  IsCacheHit(s.log[i]) =>
                      /\ s.pc \notin {"r_get", "r_list", "r_create",
                                      "r_put_found", "r_put_new"}
                      /\ i < Len(s.log) =>
                            s.log[i + 1].op \notin {"r_list", "r_create", "r_kvput"}
            /\ (s.entry = "resolve" /\ s.log # <<>> /\ IsCacheHit(s.log[1])) =>
                  /\ Done(s) /\ s.ret.ok
                  /\ s.ret.id = s.log[1].val
                  /\ Len(s.log) = 1

\* the step that consumes the cache lookup changes neither store nor remote
C4_GetStepFrame ==
    \A p \in Procs :
        (proc[p].pc = "r_get" /\ proc'[p] # proc[p]) => UNCHANGED <<kv, remote>>

\* C4: on a cache hit the resolver returns exactly the cached value, issues
\* neither the list call nor the create call, and leaves cache and remote
\* unchanged.
C4_CacheHitFastPath == [](C4_HitEndsCall) /\ [][C4_GetStepFrame]_vars

C4_Witness ==
    \E p \in Procs :
        /\ proc[p].entry = "resolve" /\ Done(proc[p])
        /\ Len(proc[p].log) = 1 /\ IsCacheHit(proc[p].log[1])
        /\ proc[p].ret.id = proc[p].log[1].val

CeilDiv(n, d) == (n + d - 1) \div d

\* the sum over the answered upload calls of a count field, absent as 0
LogTotal(log, field) ==
    LET has == {i \in 1..Len(log) : field \in DOMAIN log[i].val.resp}
        RECURSIVE Sum(_)
        Sum(S) == IF S = {} THEN 0
                  ELSE LET i == CHOOSE j \in S : TRUE
                       IN  log[i].val.resp[field] + Sum(S \ {i})
    IN  Sum(has)

\* C5: an upload of N > 10,000 identifiers whose chunk calls all succeed
\* issues exactly ceil(N/10000) upload calls and returns the sums of the
\* chunk responses' num_received and num_invalid_entries, absent as 0.
C5_ChunkCountAndTotals ==
    \A p \in Procs :
        LET s == proc[p]
        IN  (s.entry = "upload" /\ s.n > 10000 /\ Done(s) /\ AllOk(s.log)) =>
                /\ s.ret.ok
                /\ Len(s.log) = CeilDiv(s.n, 10000)
                /\ \A i \in 1..Len(s.log) : s.log[i].op = "upload"
                /\ s.ret.body.num_received = LogTotal(s.log, "num_received")
                /\ s.ret.body.num_invalid_entries =
                        LogTotal(s.log, "num_invalid_entries")

C5_Witness ==
    \E p \in Procs :
        LET s == proc[p]
        IN  /\ s.entry = "upload" /\ Done(s) /\ s.ret.ok
            /\ s.n = 2 * 10000 + 1 /\ Len(s.log) = 3
            /\ s.ret.body.num_received = 10000 + 1
            /\ s.ret.body.num_invalid_entries = 1

\* the i-th consecutive slice of at most 10,000 out of n identifiers
SliceOf(n, i) ==
    [from |-> (i - 1) * 10000, to |-> IF i * 10000 < n THEN i * 10000 ELSE n]

\* C6: the upload calls go out in chunk order, each chunk once; a failed call
\* is the last call of the upload (no retry, no later chunk), the upload then
\* fails, and the chunks sent before it stay applied on the remote.
C6_FailedChunkAborts ==
    \A p \in Procs :
        LET s == proc[p]
            oks == {i \in 1..Len(s.log) : s.log[i].ok}
        IN  s.entry = "upload" =>
                /\ \A i \in 1..Len(s.log) :
                      /\ s.log[i].op = "upload"
                      /\ s.log[i].val.slice = SliceOf(s.n, i)
                      /\ ~s.log[i].ok => /\ i = Len(s.log)
                                         /\ Done(s) /\ ~s.ret.ok
                /\ s.applied = [i \in 1..Cardinality(oks) |-> SliceOf(s.n, i)]

C6_Witness ==
    \E p \in Procs :
        LET s == proc[p]
        IN  /\ s.entry = "upload" /\ Done(s) /\ ~s.ret.ok
            /\ s.n = 2 * 10000 + 1
            /\ Len(s.log) = 2 /\ ~s.log[2].ok
            /\ s.applied = <<SliceOf(s.n, 1)>>

\* C7: a scheduled run starts with the Sync flow and starts the Lookalike flow
\* afterwards exactly when Sync returned success; after a failed Sync the run
\* has ended and holds no store or remote call of the Lookalike flow.
C7_LookalikeIffSyncSucceeded ==
    \A p \in Procs :
        LET s == proc[p]
        IN  s.entry = "scheduled" =>
                /\ s.flows \in {<<"sync">>, <<"sync", "look">>}
                /\ (s.flows = <<"sync", "look">>) <=> (s.syncRes = "ok")
                /\ s.syncRes = "none" =>
                      \A i \in 1..Len(s.log) : s.log[i].flow = "sync"
                /\ s.syncRes = "failed" =>
                      /\ Done(s)
                      /\ \A i \in 1..Len(s.log) : s.log[i].flow # "look"

C7_Witness ==
    /\ \E p \in Procs :
          /\ proc[p].entry = "scheduled" /\ Done(proc[p])
          /\ proc[p].syncRes = "ok"
          /\ \E i \in 1..Len(proc[p].log) : proc[p].log[i].flow = "look"
    /\ \E q \in Procs :
          /\ proc[q].entry = "scheduled" /\ Done(proc[q])
          /\ proc[q].syncRes = "failed"

SyncUploads(log) ==
    {i \in 1..Len(log) : log[i].flow = "sync" /\ log[i].op = "upload"}

\* C8: Sync returns success only when its upload calls were all answered
\* successfully; a failed upload call makes it return success = false, and a
\* scheduled run then starts no Lookalike flow.
C8_SyncSuccessNeedsUpload ==
    \A p \in Procs :
        LET s == proc[p]
            ups == SyncUploads(s.log)
        IN  s.entry \in {"sync", "scheduled"} =>
                /\ s.syncRes = "ok" =>
                      /\ ups # {}
                      /\ \A i \in ups : s.log[i].ok
                /\ (\E i \in ups : ~s.log[i].ok) =>
                      /\ s.syncRes = "failed"
                      /\ Done(s) /\ ~s.ret.ok
                      /\ s.flows = <<"sync">>

C8_Witness ==
    \E p \in Procs :
        /\ proc[p].entry = "sync" /\ Done(proc[p]) /\ ~proc[p].ret.ok
        /\ \E i \in SyncUploads(proc[p].log) : ~proc[p].log[i].ok

\* a failed hashing step or a failed call of the resolver, in the Sync flow
FailedBeforeUpload(e) ==
    /\ e.flow = "sync" /\ ~e.ok
    /\ e.op \in {"hash", "r_kvget", "r_list", "r_create", "r_kvput"}

\* C9: in the Sync flow no upload call follows a failed hashing or resolving
\* step of the same run: the run has then ended as failed.
C9_NoUploadAfterEarlyFailure ==
    \A p \in Procs :
        LET s == proc[p]
        IN  \A i \in 1..Len(s.log) :
                FailedBeforeUpload(s.log[i]) =>
                    /\ s.syncRes = "failed"
                    /\ s.pc # "u_send"
                    /\ Count(s.log, "upload") = 0
                    /\ Count(s.log, "s_kvput") = 0

C9_Witness ==
    \E p \in Procs :
        /\ proc[p].entry = "sync" /\ Done(proc[p]) /\ ~proc[p].ret.ok
        /\ Last(proc[p].log).op = "r_list"
        /\ FailedBeforeUpload(Last(proc[p].log))

\* C10: the deriver rejects a ratio below 0.01 or above 0.20 with a failure
\* before any store or remote call, and does not reject 0.01 and 0.20.
C10_RatioRange ==
    \A p \in Procs :
        LET s == proc[p]
        IN  s.entry = "derive" =>
                /\ (s.ratio < 10 \/ s.ratio > 200) =>
                      /\ Done(s) /\ ~s.ret.ok
                      /\ s.log = <<>>
                /\ (s.ratio \in {10, 200} /\ Done(s)) =>
                      /\ s.log # <<>>
                      /\ s.ret.ok <=> AllOk(s.log)

C10_Witness ==
    /\ \E p \in Procs :
          /\ proc[p].entry = "derive" /\ proc[p].ratio = 250
          /\ Done(proc[p]) /\ ~proc[p].ret.ok /\ proc[p].log = <<>>
    /\ \E q \in Procs :
          /\ proc[q].entry = "derive" /\ proc[q].ratio = 200
          /\ Done(proc[q]) /\ proc[q].ret.ok

IsDeriveMiss(e) == e.op = "d_kvget" /\ e.ok /\ e.val = 0

\* a deriver call that missed the cache: its calls are the get, then one
\* create, then one put of the created id; it returns that id
C11_MissCalls ==
    \A p \in Procs :
        LET s == proc[p]
            log == s.log
        IN  (s.entry = "derive" /\ log # <<>> /\ IsDeriveMiss(log[1])) =>
                /\ Count(log, "d_create") <= 1
                /\ \A i \in 1..Len(log) : log[i].op \notin {"r_list", "r_create"}
                /\ Len(log) = 1 => s.pc = "d_create"
                /\ Len(log) >= 2 => log[2].op = "d_create"
                /\ (Len(log) >= 2 /\ ~log[2].ok) =>
                      /\ Len(log) = 2
                      /\ Done(s) /\ ~s.ret.ok
                /\ (Done(s) /\ s.ret.ok) =>
                      /\ Len(log) = 3
                      /\ log[2].ok /\ log[2].val # 0
                      /\ log[3].op = "d_kvput" /\ log[3].ok
                      /\ log[3].val = log[2].val
                      /\ s.ret.id = log[2].val

\* the step in which a deriver call returns: a successful return after a miss
\* leaves the created id under the key, a failed create leaves the cache alone
C11_ReturnStep ==
    \A p \in Procs :
        LET s == proc[p]
            t == proc'[p]
        IN  (s.entry = "derive" /\ t.entry = "derive" /\ ~Done(s) /\ Done(t)) =>
                /\ (s.pc = "d_put" /\ t.ret.ok) =>
                      kv'[lookalikeIdKeyInKV(LookalikeName, s.country, s.ratio)]
                          = t.ret.id
                /\ s.pc = "d_create" => kv' = kv

\* C11: with a valid ratio, a cache miss on the lookalike key leads to exactly
\* one create call and no list call; on success the new id is written under
\* the key and returned; a failed create fails the call and writes nothing.
C11_MissCreatesOnce == [](C11_MissCalls) /\ [][C11_ReturnStep]_vars

C11_Witness ==
    /\ \E p \in Procs :
          /\ proc[p].entry = "derive" /\ Done(proc[p]) /\ proc[p].ret.ok
          /\ Len(proc[p].log) = 3 /\ IsDeriveMiss(proc[p].log[1])
          /\ kv[lookalikeIdKeyInKV(LookalikeName, proc[p].country, proc[p].ratio)]
                = proc[p].ret.id
    /\ \E q \in Procs :
          /\ proc[q].entry = "derive" /\ Done(proc[q]) /\ ~proc[q].ret.ok
          /\ Len(proc[q].log) = 2 /\ ~proc[q].log[2].ok

\* the records of pages 1..n of a chain, in page order
RECURSIVE RecordsUpTo(_, _)
RecordsUpTo(chain, n) ==
    IF n = 0 THEN <<>>
    ELSE RecordsUpTo(chain, n - 1)
            \o [k \in 1..(IF chain[n] < 0 THEN 0 ELSE chain[n]) |->
                    [page |-> n, k |-> k]]

\* the fetched pages are 1, 2, ... in order, each once
FetchedInOrder(log) ==
    \A i \in 1..Len(log) : log[i].op = "fetch" /\ log[i].val.page = i

\* C12: when every fetch succeeds, the collector fetches each page of the
\* chain exactly once, in cursor order, stops at the page without a next
\* reference and returns the concatenation of all pages' records.
C12_AllPagesInOrder ==
    \A p \in Procs :
        LET s == proc[p]
        IN  (s.entry = "insights" /\ AllOk(s.log)) =>
                /\ FetchedInOrder(s.log)
                /\ Len(s.log) <= Len(s.chain)
                /\ Done(s) =>
                      /\ s.ret.ok
                      /\ Len(s.log) = Len(s.chain)
                      /\ s.ret.body.data = RecordsUpTo(s.chain, Len(s.chain))

C12_Witness ==
    \E p \in Procs :
        LET s == proc[p]
        IN  /\ s.entry = "insights" /\ Done(s) /\ s.ret.ok
            /\ s.chain = <<1, -1, 1>>
            /\ Len(s.log) = 3
            /\ s.ret.body.data = <<[page |-> 1, k |-> 1], [page |-> 3, k |-> 1]>>

\* the fetch of a follow-up page has failed
FollowUpFailed(s) ==
    /\ s.entry = "insights" /\ s.log # <<>>
    /\ ~Last(s.log).ok /\ Last(s.log).val.page > 1

\* C13 (as claimed): however the fetch of a follow-up page fails, the
\* collector does not fail and returns the records of the pages fetched
\* before the failure, in order.
C13_PartialOnAnyFailure ==
    \A p \in Procs :
        LET s == proc[p]
        IN  FollowUpFailed(s) =>
                /\ Done(s) /\ s.ret.ok
                /\ s.ret.body.data = RecordsUpTo(s.chain, Len(s.log) - 1)

\* the campaign listing of a metrics run has been answered
ListedCampaigns(s) ==
    /\ s.entry \in {"metrics", "analysis"}
    /\ s.log # <<>> /\ s.log[1].op = "campaigns" /\ s.log[1].ok

\* the puts a run has made under a key of the metrics flow
MetricsPuts(log, key) ==
    {i \in 1..Len(log) : log[i].op = "m_kvput" /\ log[i].val = key}

\* C14: with zero ACTIVE campaigns in the listing the Metrics flow returns
\* success with no data and writes nothing to the store; a following
\* getStoredMetrics returns the snapshot stored before the run, unchanged.
C14_NoActiveCampaigns ==
    \A p \in Procs :
        LET s == proc[p]
        IN  /\ (ListedCampaigns(s) /\ activeCampaignIds(s.campaigns) = <<>>) =>
                  /\ Done(s) /\ s.ret.ok
                  /\ s.ret.body = NoBody
                  /\ Len(s.log) = 1
                  /\ kv[LAST_METRICS] = s.snap0
            /\ (s.entry = "stored" /\ Done(s) /\ AllOk(s.log)
                    /\ s.prev.entry \in {"metrics", "analysis"}
                    /\ s.prev.msg = "noactive") =>
                  /\ s.snap0 = s.prev.snap0
                  /\ s.ret.ok <=> s.prev.snap0 # NoBody
                  /\ s.ret.body = s.prev.snap0

C14_Witness ==
    \E p \in Procs :
        LET s == proc[p]
        IN  /\ s.entry = "stored" /\ Done(s) /\ s.ret.ok
            /\ s.prev.entry = "metrics" /\ s.prev.msg = "noactive"
            /\ s.prev.snap0 # NoBody
            /\ s.ret.body = s.prev.snap0

\* getAdInsights has returned its collection to fetchMetrics
CollectorReturned(s) ==
    /\ ListedCampaigns(s)
    /\ s.pc \notin {"m_campaigns", "m_put_active", "i_first", "i_next"}
    /\ \E i \in 1..Len(s.log) : s.log[i].op = "fetch" /\ s.log[i].ok
    /\ \A i \in 1..Len(s.log) :
          (s.log[i].op = "fetch" /\ ~s.log[i].ok) =>
              (s.log[i].val.page > 1 /\ s.log[i].val.kind = "status")

\* C15: with active campaigns and a collection of zero records the Metrics
\* flow returns success with an explanatory message and writes no snapshot:
\* the value under last_metrics is the one from before the run.
C15_NoRecordsNoSnapshot ==
    \A p \in Procs :
        LET s == proc[p]
        IN  (CollectorReturned(s) /\ s.allData = <<>>) =>
                /\ activeCampaignIds(s.campaigns) # <<>>
                /\ Done(s) /\ s.ret.ok
                /\ s.ret.msg = "nodata"
                /\ s.ret.body = NoBody
                /\ MetricsPuts(s.log, LAST_METRICS) = {}
                /\ kv[LAST_METRICS] = s.snap0

C15_Witness ==
    \E p \in Procs :
        LET s == proc[p]
        IN  /\ s.entry = "metrics" /\ CollectorReturned(s) /\ s.allData = <<>>
            /\ Done(s) /\ s.ret.msg = "nodata"
            /\ s.snap0 # NoBody /\ kv[LAST_METRICS] = s.snap0
            /\ MetricsPuts(s.log, ACTIVE_CAMPAIGNS) # {}

\* the events of the Lookalike flow of a run
LookEvents(log) == SelectSeq(log, LAMBDA e : e.flow = "look")

ResolverOps == {"r_kvget", "r_list", "r_create", "r_kvput"}
DeriverOps == {"d_kvget", "d_create", "d_kvput"}

\* C16: when the Lookalike flow finds no cached id of the source name it
\* makes exactly one resolve call; it goes on to the deriver only after that
\* resolve has succeeded, and a failed resolve ends the flow with
\* success = false and without a lookalike create call.
C16_OneResolveBeforeDerive ==
    \A p \in Procs :
        LET s == proc[p]
            log == LookEvents(s.log)
        IN  (log # <<>> /\ log[1].op = "l_kvget" /\ log[1].ok /\ log[1].val = 0) =>
                /\ Count(log, "r_kvget") <= 1
                /\ Len(log) = 1 => s.pc = "r_get"
                /\ Len(log) >= 2 => log[2].op = "r_kvget"
                /\ \A i \in 1..Len(log) :
                      /\ log[i].op \in DeriverOps =>
                            /\ \A j \in 1..(i - 1) : log[j].ok
                            /\ \E j \in 1..(i - 1) :
                                  log[j].op = "l_kvput" /\ log[j].val # 0
                      /\ (log[i].op \in ResolverOps /\ ~log[i].ok) =>
                            /\ i = Len(log)
                            /\ Done(s) /\ ~s.ret.ok
                            /\ s.ret.msg = "notfound"
                /\ s.pc \in {"d_get", "d_create", "d_put"} => AllOk(log)

C16_Witness ==
    /\ \E p \in Procs :
          LET log == LookEvents(proc[p].log)
          IN  /\ Len(log) >= 2 /\ log[1].op = "l_kvget" /\ log[1].val = 0
              /\ Last(log).op = "r_list" /\ ~Last(log).ok
              /\ Done(proc[p]) /\ ~proc[p].ret.ok
    /\ \E q \in Procs :
          LET log == LookEvents(proc[q].log)
          IN  /\ Len(log) >= 2 /\ log[1].op = "l_kvget" /\ log[1].val = 0
              /\ Count(log, "d_create") = 1
              /\ Done(proc[q]) /\ proc[q].ret.ok

EntryPoints == {"sync", "lookalike", "scheduled", "metrics", "analysis", "stored"}

\* a not-ok answer for a follow-up insights page: the collector absorbs it
IsAbsorbed(e) == e.op = "fetch" /\ e.val.page > 1 /\ e.val.kind = "status"

\* C17 (as claimed): an entry point never raises, and any failed remote or
\* store call inside it ends the call with success = false.
C17_AnyFailureFails ==
    \A p \in Procs :
        LET s == proc[p]
        IN  (s.entry \in EntryPoints /\ Done(s)) =>
                /\ s.ret.msg # "thrown"
                /\ (~AllOk(s.log)) => ~s.ret.ok

\* C17 (amended): an entry point never raises; a failed remote or store call
\* inside it ends the call with success = false and a message, except a
\* not-ok answer for a follow-up insights page, after which the Metrics flow
\* goes on with the records collected so far.
C17_NeverRaises ==
    \A p \in Procs :
        LET s == proc[p]
        IN  (s.entry \in EntryPoints /\ Done(s)) =>
                /\ s.ret.msg # "thrown"
                /\ s.ret.msg # ""
                /\ (\E i \in 1..Len(s.log) : ~s.log[i].ok /\ ~IsAbsorbed(s.log[i])) =>
                      ~s.ret.ok
                /\ (\A i \in 1..Len(s.log) : ~s.log[i].ok => IsAbsorbed(s.log[i])) =>
                      (s.entry \in {"metrics", "analysis"} => s.ret.ok)

C17_Witness ==
    \E p \in Procs :
        LET s == proc[p]
        IN  /\ s.entry = "metrics" /\ Done(s) /\ ~s.ret.ok
            /\ s.ret.msg = "error"
            /\ Last(s.log).op = "m_kvput" /\ ~Last(s.log).ok
            /\ Last(s.log).val = LAST_METRICS

StoreOps == {"r_kvget", "r_kvput", "s_kvput", "l_kvget", "l_kvput",
             "d_kvget", "d_kvput"}

\* C18 (as claimed): a failed store get or put inside the resolver or the
\* Sync flow is taken as a miss or a no-op: a call whose only failed calls
\* are store calls still succeeds and returns the audience id.
C18_StoreFailureAbsorbed ==
    \A p \in Procs :
        LET s == proc[p]
        IN  (s.entry \in {"resolve", "sync"} /\ Done(s)
                /\ \A i \in 1..Len(s.log) : ~s.log[i].ok => s.log[i].op \in StoreOps) =>
                    /\ s.ret.ok
                    /\ s.ret.id # 0

\* the results of the wrappers: a failed get gives null, a failed put or
\* delete gives false, a successful put or delete gives true; none raises
C19_Results ==
    \A p \in Procs :
        LET s == proc[p]
        IN  (s.entry \in {"get", "put", "del"} /\ Done(s)) =>
                /\ s.ret.msg # "thrown"
                /\ Len(s.log) = 1
                /\ s.entry = "get" =>
                      /\ ~s.log[1].ok => s.ret.id = 0 /\ s.ret.msg = "null"
                      /\ s.log[1].ok => s.ret.id = s.log[1].val
                /\ s.entry \in {"put", "del"} => (s.ret.ok <=> s.log[1].ok)

\* the step in which a wrapper returns: a successful get returns the value the
\* store holds, a successful put leaves the value and a successful delete
\* leaves nothing under the key, a failed call leaves the store as it was
C19_ReturnStep ==
    \A p \in Procs :
        LET s == proc[p]
            t == proc'[p]
            key == audienceIdKeyInKV(s.name)
        IN  (s.pc \in {"k_get", "k_put", "k_del"} /\ Done(t)) =>
                /\ (s.pc = "k_get" /\ Last(t.log).ok) =>
                      t.ret.id = kv[key] /\ kv' = kv
                /\ (s.pc = "k_put" /\ t.ret.ok) =>
                      kv' = [kv EXCEPT ![key] = s.aid]
                /\ (s.pc = "k_del" /\ t.ret.ok) =>
                      kv' = [kv EXCEPT ![key] = 0]
                /\ ~Last(t.log).ok => kv' = kv

\* C19: get, put and del fail closed: when the store raises, get returns null
\* and put/del return false, none raises; on success put/del return true and
\* get returns the stored value.
C19_FailClosed == [](C19_Results) /\ [][C19_ReturnStep]_vars

C19_Witness ==
    /\ \E p \in Procs :
          /\ proc[p].entry = "get" /\ Done(proc[p])
          /\ ~proc[p].log[1].ok /\ proc[p].ret.msg = "null"
          /\ kv[audienceIdKeyInKV(proc[p].name)] # 0
    /\ \E q \in Procs :
          /\ proc[q].entry = "put" /\ Done(proc[q]) /\ proc[q].ret.ok
          /\ kv[audienceIdKeyInKV(proc[q].name)] = proc[q].aid

\* C20 (as claimed): every identifier written to the log and every identifier
\* sent in an upload request is a hashed identifier, never a raw or
\* digits-only phone number.
C20_OnlyHashedLeaves ==
    \A p \in Procs :
        LET s == proc[p]
        IN  /\ s.printed \subseteq {"hashed"}
            /\ \A i \in 1..Len(s.log) :
                  s.log[i].op = "upload" => s.log[i].val.form = "hashed"

\* C21: an upload of an empty identifier set is a validation failure: the
\* upload ends as failed and no upload call has been issued for it.
C21_EmptyUploadRejected ==
    \A p \in Procs :
        LET s == proc[p]
        IN  (s.entry = "upload" /\ s.n = 0) =>
                /\ Count(s.log, "upload") = 0
                /\ Done(s) => ~s.ret.ok

\* the positions in a call log of the upload calls and of the awaited timers
UploadCalls(log) == {i \in 1..Len(log) : log[i].op = "upload"}
Pauses(log) == {i \in 1..Len(log) : log[i].op = "delay"}

\* C22: between the sends of every two consecutive chunks of an upload there
\* is a pacing delay, and no pacing delay comes before the first send or
\* after the last one (so none at all with a single chunk).
C22_PacedBetweenChunks ==
    \A p \in Procs :
        LET log == proc[p].log
        IN  proc[p].entry = "upload" =>
                /\ \A i, j \in UploadCalls(log) :
                      i < j => \E k \in Pauses(log) : i < k /\ k < j
                /\ \A k \in Pauses(log) :
                      \E i, j \in UploadCalls(log) : i < k /\ k < j

\* C23: an upload that fails at a chunk after the first reports, with its
\* failure, the received and invalid counts summed over the chunks that were
\* answered before it.
C23_FailureCarriesPartialCounts ==
    \A p \in Procs :
        LET s == proc[p]
        IN  (s.entry = "upload" /\ Done(s) /\ ~s.ret.ok /\ Len(s.log) > 1) =>
                /\ {"num_received", "num_invalid_entries"} \subseteq DOMAIN s.ret.body
                /\ s.ret.body.num_received = LogTotal(s.log, "num_received")
                /\ s.ret.body.num_invalid_entries =
                        LogTotal(s.log, "num_invalid_entries")

\* the paths of the fetch handler that run a pipeline flow
FlowPaths ==
    {"/api/sync-audience", "/api/create-lookalike", "/api/metrics/collect",
     "/api/metrics/latest"}

\* C24: a request to a path that runs a pipeline flow is answered with a
\* 500-class status whenever the flow's result has success = false, and with
\* a 2xx status only when it has success = true.
C24_FailedFlowAnswers500 ==
    \A p \in Procs :
        LET s == proc[p]
        IN  (s.path \in FlowPaths /\ Done(s)) =>
                /\ ~s.ret.ok => s.status \in 500..599
                /\ s.status \in 200..299 => s.ret.ok

\* a request made while a secret is missing has been answered at once with
\* the fixed 500 response and has called nothing
C25_Answered ==
    \A p \in Procs :
        LET s == proc[p]
        IN  (s.path # "" /\ (~s.env.FB_ACCESS_TOKEN \/ ~s.env.FB_AD_ACCOUNT_ID)) =>
                /\ Done(s) /\ s.status = 500 /\ s.ret.msg = "nosecrets"
                /\ s.log = <<>> /\ s.flows = <<>> /\ s.flow = "none"

\* the step that takes such a request leaves the store and the remote alone
C25_StartStep ==
    \A p \in Procs :
        LET s == proc'[p]
        IN  (s # proc[p] /\ s.path # ""
                /\ (~s.env.FB_ACCESS_TOKEN \/ ~s.env.FB_AD_ACCOUNT_ID)) =>
                kv' = kv /\ remote' = remote /\ faults' = faults

\* C25: with the access token or the ad-account id missing, a request to any
\* path gets the fixed status-500 response, and no pipeline flow, remote call
\* or store access is started for it.
C25_NoSecretsFixed500 == [](C25_Answered) /\ [][C25_StartStep]_vars

C25_Witness ==
    \E p \in Procs :
        LET s == proc[p]
        IN  /\ s.path = "/api/sync-audience" /\ s.status = 500
            /\ s.env.FB_ACCESS_TOKEN /\ ~s.env.FB_AD_ACCOUNT_ID
            /\ s.prev.entry = "analysis" /\ s.prev.ok

\* the digit characters of a string, in their order
DigitsOf(x) == SelectSeq(x, LAMBDA c : c \in Digits)

\* C26: normalize keeps exactly the digit characters of its input in their
\* order, applying it again changes nothing, and "+7 (999) 123-45-67" gives
\* "79991234567".
C26_NormalizeIdempotent ==
    \A p \in Procs :
        LET s == proc[p]
        IN  s.entry = "normalize" =>
                /\ Len(s.outs) >= 1 => s.outs[1] = DigitsOf(s.arg)
                /\ Len(s.outs) >= 2 => s.outs[2] = s.outs[1]
                /\ (Len(s.outs) >= 1 /\ s.arg = SamplePhone) =>
                        s.outs[1] = <<"7", "9", "9", "9", "1", "2", "3", "4", "5",
                                      "6", "7">>

C26_Witness ==
    \E p \in Procs :
        LET s == proc[p]
        IN  /\ s.entry = "normalize" /\ Done(s) /\ s.arg = SamplePhone
            /\ Len(s.outs) = 2 /\ Len(s.outs[2]) = 11

\* C27: hashAll fulfils with a list as long as its input whose i-th element
\* is hash(normalize(input[i])), whatever the order in which the digests
\* completed; nothing is dropped, deduplicated or reordered, and a failed
\* digest fails the whole call.
C27_HashAllKeepsOrder ==
    \A p \in Procs :
        LET s == proc[p]
        IN  s.entry = "hashall" =>
                /\ (Done(s) /\ s.ret.ok) =>
                      /\ AllOk(s.log)
                      /\ Len(s.outs) = Len(s.phones)
                      /\ \A i \in 1..Len(s.phones) :
                            s.outs[i] = <<"#">> \o DigitsOf(s.phones[i])
                /\ ~AllOk(s.log) => Done(s) /\ ~s.ret.ok

C27_Witness ==
    \E p \in Procs :
        LET s == proc[p]
        IN  /\ s.entry = "hashall" /\ Done(s) /\ s.ret.ok
            /\ Len(s.phones) = 3 /\ s.order = <<3, 1, 2>>
            /\ s.phones[1] = s.phones[3] /\ s.phones[1] # s.phones[2]
            /\ s.outs[1] = s.outs[2]

\* what each drawn report adds by the reference reduction: spend (in
\* hundredths), impressions, clicks, and the value of its first purchase, lead
\* or complete_registration action; missing or unparsable counts as 0
Reference ==
    << [spend |-> 1000, impressions |-> 100, clicks |-> 5, conversions |-> 1],
       [spend |-> 2000, impressions |-> 100, clicks |-> 5, conversions |-> 0],
       [spend |-> 50, impressions |-> 0, clicks |-> 0, conversions |-> 2],
       [spend |-> 0, impressions |-> 0, clicks |-> 5, conversions |-> 0],
       [spend |-> 0, impressions |-> 0, clicks |-> 0, conversions |-> 0],
       [spend |-> 2000, impressions |-> 100, clicks |-> 0, conversions |-> 0],
       [spend |-> 0, impressions |-> 10, clicks |-> 0, conversions |-> 0] >>

RefSum(picks, field) ==
    LET RECURSIVE Sum(_)
        Sum(i) == IF i = 0 THEN 0 ELSE Reference[picks[i]][field] + Sum(i - 1)
    IN  Sum(Len(picks))

\* the quotient q equals num/den, or 0 when den = 0
IsQuotient(q, num, den) ==
    IF den = 0 THEN q.num = 0 ELSE q.num * den = num * q.den

\* C28: summarize equals the reference reduction: the totals are the sums of
\* spend, impressions, clicks and first-conversion values, and avgCTR =
\* clicks/impressions*100, avgCPC = spend/clicks, avgCPM =
\* spend/impressions*1000, avgCPA = spend/conversions, each 0 when its
\* denominator is 0; the scenario's two records give 30, 200, 10, 1 and
\* 5, 3, 150, 30.
C28_SummaryIsReference ==
    \A p \in Procs :
        LET s == proc[p]
            r == s.ret.body
            spend == RefSum(s.arg, "spend")
            impressions == RefSum(s.arg, "impressions")
            clicks == RefSum(s.arg, "clicks")
            conversions == RefSum(s.arg, "conversions")
        IN  (s.entry = "summary" /\ Done(s)) =>
                /\ r.totalSpend = spend
                /\ r.totalImpressions = impressions
                /\ r.totalClicks = clicks
                /\ r.totalConversions = conversions
                /\ IsQuotient(r.avgCTR, clicks * 100, impressions)
                /\ IsQuotient(r.avgCPC, spend, clicks * 100)
                /\ IsQuotient(r.avgCPM, spend * 10, impressions)
                /\ IsQuotient(r.avgCPA, spend, conversions * 100)
                /\ s.arg = <<1, 2>> =>
                      /\ r.totalSpend = 30 * 100 /\ r.totalImpressions = 200
                      /\ r.totalClicks = 10 /\ r.totalConversions = 1
                      /\ r.avgCTR.num = 5 * r.avgCTR.den
                      /\ r.avgCPC.num = 3 * r.avgCPC.den
                      /\ r.avgCPM.num = 150 * r.avgCPM.den
                      /\ r.avgCPA.num = 30 * r.avgCPA.den

C28_Witness ==
    \E p \in Procs :
        LET s == proc[p]
        IN  /\ s.entry = "summary" /\ Done(s) /\ s.arg = <<3, 1>>
            /\ s.ret.body.totalConversions = 3
            /\ s.ret.body.totalSpend = 1050

\* name.toLowerCase(), for the names drawn
ToLowerCase(name) == IF name = "Phone Audience" THEN "phone audience" ELSE name

\* the id of the first listed audience whose name is `name` up to case
RECURSIVE FirstIgnoringCase(_, _)
FirstIgnoringCase(list, name) ==
    IF list = <<>> THEN 0
    ELSE IF ToLowerCase(Head(list).name) = ToLowerCase(name) THEN Head(list).id
    ELSE FirstIgnoringCase(Tail(list), name)

\* C29: in the list-and-match step the requested name is compared with the
\* listed names without regard to case; when listed audiences match, no
\* audience is created and the id of the first match in listing order is
\* returned and cached.
C29_FirstMatchIgnoringCase ==
    \A p \in Procs :
        LET s == proc[p]
        IN  s.entry = "resolve" =>
                \A i \in 1..Len(s.log) :
                    (s.log[i].op = "r_list" /\ s.log[i].ok) =>
                        LET listed == SubSeq(remote, 1, s.log[i].val)
                            match == FirstIgnoringCase(listed, s.name)
                        IN  match # 0 =>
                                /\ Count(s.log, "r_create") = 0
                                /\ s.pc # "r_create"
                                /\ (Done(s) /\ AllOk(s.log)) =>
                                        /\ s.ret.id = match
                                        /\ Last(s.log).op = "r_kvput"
                                        /\ Last(s.log).val = match

\* within a resolver call the list call and the create call are issued at
\* most once each, and a failed one of them is the call's last step: nothing
\* is created or cached after it and the resolver has failed
C30_Calls ==
    \A p \in Procs :
        LET s == proc[p]
            call == ResolverCall(s.log)
        IN  /\ Count(call, "r_list") <= 1
            /\ Count(call, "r_create") <= 1
            /\ \A i \in 1..Len(call) :
                  (call[i].op \in {"r_list", "r_create"} /\ ~call[i].ok) =>
                      /\ i = Len(call)
                      /\ Count(call, "r_kvput") = 0
                      /\ call[i].op = "r_list" => Count(call, "r_create") = 0
                      /\ s.pc \notin {"r_get", "r_list", "r_create",
                                       "r_put_found", "r_put_new"}
                      /\ s.entry = "resolve" => Done(s) /\ ~s.ret.ok

\* the step in which the list call or the create call fails writes nothing
\* to the cache and creates nothing
C30_FailStep ==
    \A p \in Procs :
        LET log == proc'[p].log
        IN  (log # proc[p].log /\ log # <<>>
                /\ Last(log).op \in {"r_list", "r_create"} /\ ~Last(log).ok) =>
                kv' = kv /\ remote' = remote

\* C30: the resolver never retries and never creates after a failed lookup:
\* the list call and the create call are each issued at most once in a
\* resolver call; a failed list call fails the call with no create call and
\* no cache write, and a create call that fails or answers without an id
\* fails the call with no cache write.
C30_NoRetryNoCreateAfterFailure == [](C30_Calls) /\ [][C30_FailStep]_vars

C30_Witness ==
    \E p \in Procs :
        LET s == proc[p]
        IN  /\ s.entry = "resolve" /\ Done(s) /\ ~s.ret.ok
            /\ Len(s.log) = 3 /\ s.log[2].op = "r_list" /\ s.log[2].ok
            /\ s.log[3].op = "r_create" /\ s.log[3].cause = "noid"
            /\ kv[audienceIdKeyInKV(s.name)] = 0

\* the chunks sent so far by the upload of invocation s are consecutive
\* slices of the input, each of 1 to 10,000 identifiers and only the last one
\* shorter than 10,000, sent one after the other in index order, each
\* identifier as a one-element tuple under the schema PHONE_SHA256; a
\* successful upload has sent the whole input
ChunksPartitionInput(s) ==
        LET sent == Len(s.log)
        IN  s.entry = "upload" =>
                /\ \A i \in 1..sent :
                      LET pl == s.log[i].val.payload
                          size == pl.last - pl.first + 1
                      IN  /\ s.log[i].op = "upload"
                          /\ pl.first = (i - 1) * 10000 + 1
                          /\ size >= 1 /\ size <= 10000
                          /\ i < sent => size = 10000 /\ s.log[i].ok
                          /\ pl.schema = <<"PHONE_SHA256">> /\ pl.width = 1
                /\ (Done(s) /\ s.ret.ok) => Last(s.log).val.payload.last = s.n

SecondDerive(p) ==
    /\ proc[p].entry = "derive"
    /\ proc[p].prev.entry = "derive" /\ proc[p].prev.ok
    /\ Alone(p)

\* C32: lookalike cache entries are independent per (name, country, ratio):
\* after a successful derive for a triple, a later call with the same triple
\* returns the same id with no remote call; a call with another country or
\* ratio does not use that entry: it returns another id, and issues its own
\* create call when its own key holds nothing.
C32_EntriesPerTriple ==
    \A p \in Procs :
        LET s == proc[p]
            same == s.country = s.prev.country /\ s.ratio = s.prev.ratio
        IN  SecondDerive(p) =>
                /\ same =>
                      /\ Count(s.log, "d_create") = 0 /\ s.pc # "d_create"
                      /\ (Done(s) /\ AllOk(s.log)) =>
                            /\ s.ret.ok /\ s.ret.id = s.prev.id
                            /\ Len(s.log) = 1 /\ s.log[1].op = "d_kvget"
                /\ (~same /\ s.log # <<>> /\ s.log[1].ok) =>
                      /\ s.log[1].val # s.prev.id
                      /\ (Done(s) /\ s.ret.ok) =>
                            /\ s.ret.id # s.prev.id
                            /\ s.log[1].val = 0 =>
                                  /\ Count(s.log, "d_create") = 1
                                  /\ s.log[2].op = "d_create"

C32_Witness ==
    \E p \in Procs :
        LET s == proc[p]
        IN  /\ SecondDerive(p) /\ Done(s) /\ s.ret.ok
            /\ s.country = s.prev.country /\ s.ratio = 200 /\ s.prev.ratio = 10
            /\ Count(s.log, "d_create") = 1
            /\ kv[lookalikeIdKeyInKV(LookalikeName, s.country, 10)] = s.prev.id
            /\ kv[lookalikeIdKeyInKV(LookalikeName, s.country, 200)] = s.ret.id
            /\ s.ret.id # s.prev.id

\* C33: the secondary resolve of the source audience in the Lookalike flow is
\* read-only with respect to the remote: no Lookalike flow issues a create
\* call for a Custom Audience; its only create call is the lookalike create.
C33_NoSourceCreateInLookalike ==
    \A p \in Procs :
        LET log == LookEvents(proc[p].log)
        IN  \A i \in 1..Len(log) : log[i].op # "r_create"

\* the first insights request of the run was answered with a not-ok response
FirstRequestNotOk(s) ==
    /\ ListedCampaigns(s)
    /\ \E i \in 1..Len(s.log) :
          /\ s.log[i].op = "fetch" /\ ~s.log[i].ok
          /\ s.log[i].val = [page |-> 1, kind |-> "status"]

\* C34: when the initial insights request is answered with a non-success
\* response the collector fails without returning records (no further page
\* is requested, nothing is collected), and the Metrics flow returns
\* success = false with no data and leaves last_metrics as it was.
C34_FirstRequestFailure ==
    \A p \in Procs :
        LET s == proc[p]
        IN  FirstRequestNotOk(s) =>
                /\ Count(s.log, "fetch") = 1
                /\ Last(s.log).op = "fetch"
                /\ s.allData = <<>>
                /\ Done(s) /\ ~s.ret.ok
                /\ s.ret.msg = "error" /\ s.ret.body = NoBody
                /\ MetricsPuts(s.log, LAST_METRICS) = {}
                /\ kv[LAST_METRICS] = s.snap0

C34_Witness ==
    \E p \in Procs :
        LET s == proc[p]
        IN  /\ s.entry = "metrics" /\ FirstRequestNotOk(s)
            /\ Done(s) /\ ~s.ret.ok
            /\ s.snap0 # NoBody /\ kv[LAST_METRICS] = s.snap0
            /\ Len(s.chain) = 2 /\ s.chain[1] = 1

\* the collector of slot 1 has returned or thrown
Returned == Done(proc[1])

\* the last answer received was a failure, or a page without a next reference
ChainEndedOrFailed(s) ==
    /\ s.log # <<>>
    /\ \/ ~Last(s.log).ok
       \/ /\ ~s.endless /\ Last(s.log).val.page = Len(s.chain)

\* C35: the collector ends exactly when the chain of next-page references
\* ends or a page fetch fails.  It never returns after a successful page
\* that carries a next reference, so against a remote that always sends one
\* it is still requesting after any number of pages; against a remote whose
\* chain is finite every call returns in the end.
C35_EndsWithChainOrFailure ==
    /\ [](LET s == proc[1]
          IN  /\ Done(s) <=> ChainEndedOrFailed(s)
              /\ (s.endless /\ s.log # <<>> /\ AllOk(s.log)) =>
                    /\ s.pc = "i_next"
                    /\ s.nextPage = Len(s.log) + 1
                    /\ FetchedInOrder(s.log))
    /\ ((proc[1].pc \in {"i_first", "i_next"} /\ ~proc[1].endless) ~> Returned)

C35_Witness ==
    LET s == proc[1]
    IN  /\ s.endless /\ AllOk(s.log) /\ s.pc = "i_next"
        /\ Count(s.log, "fetch") = MaxFetches
        /\ Len(s.chain) = 2 /\ s.chain[1] = 1 /\ s.chain[2] = 1
        /\ Len(s.allData) = MaxFetches

\* slot p runs a resolveOrCreate of the synced name after the Sync
\* invocations of both slots have ended, with a working store and remote
LaterResolve(p) ==
    /\ proc[p].entry = "resolve" /\ proc[p].name = PhoneAudience
    /\ proc[p].prev.entry = "sync"
    /\ \A q \in Procs \ {p} : proc[q].entry = "sync" /\ Done(proc[q])
    /\ faults = 0

AudiencePuts == {"r_kvput", "s_kvput"}

\* slot p has just been answered a successful put of an audience id
PutAnswered(p) ==
    /\ Len(proc'[p].log) = Len(proc[p].log) + 1
    /\ Last(proc'[p].log).op \in AudiencePuts /\ Last(proc'[p].log).ok

\* C36: double invocation is self-correcting.  Every successful put of an
\* audience id replaces what the key held, and nothing else changes the key
\* (the last writer's id stays); once two Sync invocations, interleaved in
\* any way, have ended, the key holds an id, and a later resolveOrCreate of
\* that name on its own returns the id the key holds and issues no create.
C36_DoubleSyncSelfCorrecting ==
    /\ [](LET key == audienceIdKeyInKV(PhoneAudience)
          IN  /\ ((\A q \in Procs : proc[q].entry = "sync" /\ Done(proc[q]))
                     /\ faults = 0) =>
                    /\ kv[key] # 0
                    /\ \A q \in Procs : proc[q].ret.ok
              /\ \A p \in Procs :
                    LaterResolve(p) =>
                        /\ kv[key] # 0
                        /\ Count(proc[p].log, "r_create") = 0
                        /\ proc[p].pc \notin {"r_list", "r_create", "r_put_new"}
                        /\ Done(proc[p]) =>
                              /\ proc[p].ret.ok
                              /\ proc[p].ret.id = kv[key])
    /\ [][LET key == audienceIdKeyInKV(PhoneAudience)
          IN  /\ \A p \in Procs :
                    (PutAnswered(p) /\ proc[p].name = PhoneAudience) =>
                        kv'[key] = Last(proc'[p].log).val
              /\ kv'[key] # kv[key] =>
                    \E p \in Procs : PutAnswered(p)]_vars

C36_Witness ==
    \E p \in Procs :
        /\ LaterResolve(p) /\ Done(proc[p])
        /\ Cardinality(RemoteIds(PhoneAudience, "CUSTOM")) = 2
        /\ proc[p].ret.id = kv[audienceIdKeyInKV(PhoneAudience)]
        /\ \A q \in Procs \ {p} : proc[q].ret.ok

\* the keys that hold audience ids
IdKeys == Keys \ MetricsKeys

\* C37: cache entries are never invalidated by the pipeline.  Over
\* non-overlapping runs of the flows no step deletes a key, and a key of an
\* audience id or of a lookalike id that holds an id holds the same id after
\* every step of every later run.
C37_EntriesNeverInvalidated ==
    [][\A k \in IdKeys : kv[k] # 0 => kv'[k] = kv[k]]_vars

\* a second scheduled run has ended after rewriting the audience key, with
\* both keys holding what the first run left
C37_Witness ==
    LET s == proc[1]
        lkey == lookalikeIdKeyInKV(LookalikeName, LookalikeCountry, LookalikeRatio)
    IN  /\ s.entry = "scheduled" /\ s.prev.entry = "scheduled" /\ s.prev.ok
        /\ Done(s) /\ s.ret.ok
        /\ s.prev.creates = 1
        /\ Count(s.log, "s_kvput") = 1 /\ Count(s.log, "r_create") = 0
        /\ kv[audienceIdKeyInKV(PhoneAudience)] # 0
        /\ kv[lkey] = s.prev.id /\ s.ret.id = s.prev.id /\ s.ret.id # 0

\* C38: cache entries always point at real remote resources.  In every
\* reachable state, interleaved runs included, an id stored under
\* audience:<name> is the id of a remote Custom Audience named <name>, and an
\* id stored under a lookalike: key is the id of a remote lookalike audience
\* created with the lookalike name.
C38_EntriesPointAtRemote ==
    /\ \A n \in Names :
          kv[audienceIdKeyInKV(n)] # 0 =>
              kv[audienceIdKeyInKV(n)] \in RemoteIds(n, "CUSTOM")
    /\ \A c \in Countries, r \in Ratios :
          kv[lookalikeIdKeyInKV(LookalikeName, c, r)] # 0 =>
              kv[lookalikeIdKeyInKV(LookalikeName, c, r)]
                  \in RemoteIds(LookalikeName, "LOOKALIKE")

\* two interleaved runs have created two audiences of the name; the audience
\* key and a lookalike key are filled
C38_Witness ==
    /\ Cardinality(RemoteIds(PhoneAudience, "CUSTOM")) = 2
    /\ kv[audienceIdKeyInKV(PhoneAudience)] \in RemoteIds(PhoneAudience, "CUSTOM")
    /\ kv[lookalikeIdKeyInKV(LookalikeName, LookalikeCountry, LookalikeRatio)]
          \in RemoteIds(LookalikeName, "LOOKALIKE")
    /\ \A p \in Procs : proc[p].pc # "idle"

\* C39: the Lookalike flow reports a failed lookalike create the same way
\* on both paths: the result is success = false with the message of that
\* failure, whether the source id came from the cache or from the secondary
\* resolve; "source audience not found" is returned only when the source
\* could not be resolved.
C39_CreateFailureSameOnBothPaths ==
    \A p \in Procs :
        LET s == proc[p]
            log == LookEvents(s.log)
        IN  /\ (log # <<>> /\ Last(log).op = "d_create" /\ ~Last(log).ok) =>
                  /\ Done(s) /\ ~s.ret.ok
                  /\ s.ret.msg = "error"
            /\ (log # <<>> /\ Done(s) /\ s.ret.msg = "notfound") =>
                  \A i \in 1..Len(log) : log[i].op \notin DeriverOps

\* C40: the two metrics keys describe the same run.  A run of the Metrics
\* flow that has ended after storing its campaign-id list under
\* active_campaigns has also stored its snapshot under last_metrics, so the
\* stored list is the one the stored snapshot was collected for.
C40_MetricsKeysSameRun ==
    \A p \in Procs :
        LET s == proc[p]
        IN  (/\ s.entry \in {"metrics", "analysis"} /\ Done(s)
             /\ \E i \in MetricsPuts(s.log, ACTIVE_CAMPAIGNS) : s.log[i].ok) =>
                /\ \E i \in MetricsPuts(s.log, LAST_METRICS) : s.log[i].ok
                /\ kv[ACTIVE_CAMPAIGNS] = [ids |-> activeCampaignIds(s.campaigns)]
                /\ kv[LAST_METRICS] = s.metricsData
====
